---------------------------- MODULE Spec2Model ----------------------------
(***************************************************************************)
(* Model of the market-making decision and risk engine of                  *)
(* Udumah8/Jupiter_Limit_MM: the circuit breaker (CircuitBreaker.ts), the  *)
(* price oracle (PriceAggregator.ts) and the per-wallet order lifecycle    *)
(* loop (MarketMaker.ts).                                                  *)
(*                                                                         *)
(* Numbers.  JavaScript numbers are modelled in fixed point:               *)
(*   - a price is an integer number of price units, PriceScale units = 1;  *)
(*     the prices the adapters report are multiples of 10 units, so that   *)
(*     the mean of two of them and the factors 1.2 and 0.8 are exact;      *)
(*   - a percentage handed to the breaker (loss, volatility) is an integer *)
(*     number of hundredths of a percent;                                  *)
(*   - Date.now() is the integer now, in clock ticks; the clock starts at  *)
(*     1, so that 0 stands for an undefined timestamp (both are falsy).    *)
(***************************************************************************)
EXTENDS Integers, Sequences, FiniteSets, TLC

VARIABLES
    now,          \* Date.now()
    cb,           \* the shared CircuitBreaker object (its private fields)
    resumes,      \* one entry per gradualResume call that started a sequence:
                  \* its setInterval timer, its step callbacks in flight, its promise
    op,           \* history: the operation performed by the last step
    lastTripAt,   \* history: the time of the last trip that took effect, while
                  \* its cooldown runs (0: none)
    pa,           \* the shared PriceAggregator object: cache and lastPrice
    priceOut,     \* history: what the last getPrice call returned or threw
    mm,           \* the MarketMaker object: isRunning and its per-wallet maps
    pc,           \* per wallet: the await its startForWallet call is suspended at
    loc,          \* per wallet: the locals of the suspended cycle
    proc,         \* the frames of start() and stop(), and process exit
    venue,        \* the limit orders open at the venue
    config,       \* the BotConfig the MarketMaker was constructed with
    rug,          \* the RugPullDetector object: its histories and its timer
    riskOut,      \* history: what the last checkToken call returned and to whom,
                  \* what its fetches answered, the supplies last fetched before
                  \* and after it, and whether a fetch has failed so far
    hist          \* history: orders created, the adapter calls the last step
                  \* issued, what was applied to Inventory, the count of
                  \* off-nominal adapter answers and operator interventions,
                  \* the price the market trades at, the cycles that
                  \* fetched a price far from the last accepted one,
                  \* the wallets that quoted from a price that is not
                  \* positive, the volatility of the last quote, the price
                  \* the sources have settled on, the pair of the last
                  \* getPrice call, and the keys of the orders cancelOrder
                  \* took off the venue

vars == <<now, cb, resumes, op, lastTripAt, pa, priceOut,
          mm, pc, loc, proc, venue, config, rug, riskOut, hist>>

---------------------------------------------------------------------------
(* Bounds of the model *)

MaxTime == 6        \* the clock stops here
MaxResumes == 2     \* gradualResume sequences started in one behaviour

---------------------------------------------------------------------------
(* CircuitBreakerConfig, as index.ts builds it from AppConfig *)

priceDeviationThresholdPercent == 50
volatilityThresholdPercent == 100
lossThresholdPercent == 10
consecutiveFailuresThreshold == 2
cooldownPeriodMs == 2
gradualResumeSteps == 2
gradualResumeIntervalMs == 1

PctScale == 100     \* hundredths of a percent per percent

Undefined == 0
NoReason == [type |-> "none", value |-> 0]

Abs(x) == IF x < 0 THEN -x ELSE x
Max(a, b) == IF a > b THEN a ELSE b

---------------------------------------------------------------------------
(* CircuitBreaker *)

\* The fields of a freshly constructed breaker.
NewCircuitBreaker ==
    [isOpen |-> FALSE, triggerReason |-> NoReason, triggeredAt |-> Undefined,
     consecutiveFailures |-> 0, resumeStep |-> 0, resumeInterval |-> Undefined,
     priceHistory |-> <<>>]

\* trip(reason) at time t: a no-op on an open breaker.
tripAlways(b, reason, t) ==
    [b EXCEPT !.isOpen = TRUE, !.triggerReason = reason, !.triggeredAt = t]

trip(b, reason, t) ==
    IF b.isOpen THEN b
    ELSE [b EXCEPT !.isOpen = TRUE, !.triggerReason = reason, !.triggeredAt = t]

manualTrip(b, t) == trip(b, [type |-> "manual", value |-> 0], t)

\* Math.abs((currentPrice - previousPrice) / previousPrice) * 100 > threshold.
\* A previous price of 0 gives Infinity (exceeds) or, for 0/0, NaN (never exceeds).
priceDeviationExceeds(currentPrice, previousPrice) ==
    IF previousPrice = 0 THEN currentPrice # 0
    ELSE Abs(currentPrice - previousPrice) * 100
            > priceDeviationThresholdPercent * Abs(previousPrice)

priceDeviationValue(currentPrice, previousPrice) ==
    IF previousPrice = 0 THEN 0
    ELSE (Abs(currentPrice - previousPrice) * 100) \div Abs(previousPrice)

\* tripCondition with the test of the consecutive failures first
tripConditionFailuresFirst(b, currentPrice, previousPrice, currentLoss, volatility) ==
    IF b.consecutiveFailures >= consecutiveFailuresThreshold
    THEN [type |-> "failures", value |-> b.consecutiveFailures]
    ELSE IF priceDeviationExceeds(currentPrice, previousPrice)
    THEN [type |-> "price_deviation",
          value |-> priceDeviationValue(currentPrice, previousPrice)]
    ELSE IF volatility > volatilityThresholdPercent * PctScale
    THEN [type |-> "volatility", value |-> volatility]
    ELSE IF currentLoss > lossThresholdPercent * PctScale
    THEN [type |-> "loss", value |-> currentLoss]
    ELSE NoReason

\* The reason checkConditions trips with, NoReason when no condition matches.
\* currentLoss and volatility are in hundredths of a percent.
tripCondition(b, currentPrice, previousPrice, currentLoss, volatility) ==
    IF priceDeviationExceeds(currentPrice, previousPrice)
    THEN [type |-> "price_deviation",
          value |-> priceDeviationValue(currentPrice, previousPrice)]
    ELSE IF volatility > volatilityThresholdPercent * PctScale
    THEN [type |-> "volatility", value |-> volatility]
    ELSE IF currentLoss > lossThresholdPercent * PctScale
    THEN [type |-> "loss", value |-> currentLoss]
    ELSE IF b.consecutiveFailures >= consecutiveFailuresThreshold
    THEN [type |-> "failures", value |-> b.consecutiveFailures]
    ELSE NoReason

\* checkConditions: [cb |-> the breaker afterwards, result |-> its return value].
checkConditions(b, currentPrice, previousPrice, currentLoss, volatility, t) ==
    LET reason == tripCondition(b, currentPrice, previousPrice, currentLoss, volatility)
    IN  IF reason = NoReason
        THEN [cb |-> b, result |-> FALSE]
        ELSE [cb |-> trip(b, reason, t), result |-> TRUE]

cooldownIgnored(b, t) == FALSE

\* The cooldown test shared by reset and gradualResume.
cooldownNotElapsed(b, t) ==
    b.triggeredAt # Undefined /\ t - b.triggeredAt < cooldownPeriodMs

\* The fields reset() writes once it has passed its guards.
closed(b) ==
    [b EXCEPT !.isOpen = FALSE, !.triggerReason = NoReason,
              !.triggeredAt = Undefined, !.consecutiveFailures = 0,
              !.resumeStep = 0, !.resumeInterval = Undefined]

\* reset() at time t.
reset(b, t) ==
    IF ~b.isOpen THEN b
    ELSE IF cooldownNotElapsed(b, t) THEN b
    ELSE closed(b)

recordFailure(b) == [b EXCEPT !.consecutiveFailures = @ + 1]
recordSuccess(b) == [b EXCEPT !.consecutiveFailures = 0]

updatePriceHistory(b, price) ==
    LET h == Append(b.priceHistory, price)
    IN  [b EXCEPT !.priceHistory = IF Len(h) > 100 THEN Tail(h) ELSE h]

isTradingAllowed(b) == ~b.isOpen

\* clearInterval(id) on the timers of the gradualResume sequences.
clearInterval(rs, id) ==
    [i \in DOMAIN rs |-> IF i = id THEN [rs[i] EXCEPT !.active = FALSE] ELSE rs[i]]

---------------------------------------------------------------------------
(* PriceAggregator *)

PriceScale == 1000  \* price units per 1.0

\* PriceAggregatorConfig, as index.ts builds it
cacheDurationMs == 1
minSources == 2
maxPriceDeviationPercent == 10
spreadPercentBps == 100             \* cfg.SPREAD_BPS; config.spreadPercent is a hundredth of it
enableCircuitBreaker == TRUE
circuitBreakerThresholdPercent == priceDeviationThresholdPercent

Null == [kind |-> "null"]
NaN == -1                           \* the confidence of an empty sample set (0/0)

\* What one price feed hands back: a number (a finite one is [kind |-> "num"]),
\* NaN, Infinity, or an exception.
Num(v) == [kind |-> "num", v |-> v]

\* The four sources in the order of pricePromises, with the confidence each
\* fetch method attaches.
Sources == <<"jupiter", "pyth", "birdeye", "dexscreener">>
SourceConfidence == <<90, 95, 85, 80>>

\* fetchJupiterPrice .. fetchDexscreenerPrice: PriceData for a finite positive
\* price, null for everything else (price && price > 0 && isFinite(price)).
fetchPrice(i, raw, t) ==
    IF raw.kind = "num" /\ raw.v # 0 /\ raw.v > 0
    THEN [kind |-> "data", price |-> raw.v, source |-> Sources[i],
          confidence |-> SourceConfidence[i], timestamp |-> t]
    ELSE Null

RECURSIVE SumSeq(_)
SumSeq(s) == IF s = <<>> THEN 0 ELSE Head(s) + SumSeq(Tail(s))

PricesOf(ds) == [i \in DOMAIN ds |-> ds[i].price]

\* calculateMedian: 0 for no values, else the middle of the sorted values, the
\* mean of the two middle ones for an even count.
calculateMedian(values) ==
    LET sorted == SortSeq(values, <)
        n == Len(sorted)
        mid == n \div 2
    IN  IF n = 0 THEN 0
        ELSE IF n % 2 = 0 THEN (sorted[mid] + sorted[mid + 1]) \div 2
        ELSE sorted[mid + 1]

\* midPrice * (1 -/+ spreadHalf), spreadHalf = config.spreadPercent / 100 / 2
bestBidOf(midPrice) == (midPrice * (20000 - spreadPercentBps)) \div 20000
bestAskOf(midPrice) == (midPrice * (20000 + spreadPercentBps)) \div 20000

createAggregatedPrice(midPrice, sources, t) ==
    [kind |-> "price", midPrice |-> midPrice,
     bestBid |-> bestBidOf(midPrice), bestAsk |-> bestAskOf(midPrice),
     sources |-> sources,
     confidence |-> IF sources = <<>> THEN NaN
                    ELSE SumSeq([i \in DOMAIN sources |-> sources[i].confidence])
                            \div Len(sources),
     timestamp |-> t]

createFallbackPrice(price, t) ==
    [kind |-> "price", midPrice |-> price,
     bestBid |-> bestBidOf(price), bestAsk |-> bestAskOf(price),
     sources |-> << [kind |-> "data", price |-> price, source |-> "fallback",
                     confidence |-> 50, timestamp |-> t] >>,
     confidence |-> 50, timestamp |-> t]

InsufficientSources == [kind |-> "error", error |-> "Insufficient price sources"]

NewPriceAggregator(pairs) ==
    [cache |-> [p \in pairs |-> Null], lastPrice |-> 0]

\* getPrice up to the fetch: the cached value when it is fresh, Null otherwise.
cachedPrice(a, pair, forceRefresh, t) ==
    IF ~forceRefresh /\ a.cache[pair] # Null
       /\ t - a.cache[pair].timestamp < cacheDurationMs
    THEN a.cache[pair]
    ELSE Null

\* |p - m| / m * 100 <= maxPriceDeviationPercent
withinDeviation(price, medianPrice) ==
    Abs(price - medianPrice) * 100 <= maxPriceDeviationPercent * medianPrice

\* lastPrice is set and |median - lastPrice| / lastPrice * 100 exceeds
\* circuitBreakerThresholdPercent.
Shock(lastPrice, median) ==
    /\ lastPrice # 0
    /\ Abs(median - lastPrice) * 100 > circuitBreakerThresholdPercent * lastPrice

\* getPrice from the settled fetches on: [pa |-> the aggregator afterwards,
\* result |-> the AggregatedPrice returned or the error thrown].  lastPrice 0
\* stands for null too: the code tests it for truthiness only.
aggregate(a, pair, raws, t) ==
    LET fetched == [i \in DOMAIN raws |-> fetchPrice(i, raws[i], t)]
        validPrices == SelectSeq(fetched, LAMBDA d : d # Null)
        medianPrice == calculateMedian(PricesOf(validPrices))
        filteredPrices ==
            SelectSeq(validPrices, LAMBDA d : withinDeviation(d.price, medianPrice))
        finalMedian == calculateMedian(PricesOf(filteredPrices))
    IN  IF Len(validPrices) < minSources
        THEN IF a.lastPrice # 0
             THEN [pa |-> a, result |-> createFallbackPrice(a.lastPrice, t)]
             ELSE [pa |-> a, result |-> InsufficientSources]
        ELSE IF /\ enableCircuitBreaker /\ a.lastPrice # 0
                /\ Abs(finalMedian - a.lastPrice) * 100
                      > circuitBreakerThresholdPercent * a.lastPrice
        THEN [pa |-> a,
              result |-> createAggregatedPrice(
                  IF finalMedian > a.lastPrice THEN (a.lastPrice * 12) \div 10
                                               ELSE (a.lastPrice * 8) \div 10,
                  filteredPrices, t)]
        ELSE LET aggregated == createAggregatedPrice(finalMedian, filteredPrices, t)
             IN  [pa |-> [a EXCEPT !.lastPrice = finalMedian,
                                   !.cache[pair] = aggregated],
                  result |-> aggregated]

\* getPrice(baseMint, quoteMint, forceRefresh) as one call.
getPrice(a, pair, forceRefresh, raws, t) ==
    IF cachedPrice(a, pair, forceRefresh, t) # Null
    THEN [pa |-> a, result |-> cachedPrice(a, pair, forceRefresh, t)]
    ELSE aggregate(a, pair, raws, t)

---------------------------------------------------------------------------
(* RugPullDetector.  A percentage is an integer, as BN division leaves it;  *)
(* a risk score is an integer number of halves, ScoreScale units = 1.       *)

\* RugPullConfig, as index.ts builds it
lpMonitoringEnabled == TRUE
supplyChangeThresholdPercent == 20
holderConcentrationThresholdPercent == 50
autoExitOnDetection == TRUE
historyCap == 1                     \* history.length > 100: shift

ScoreScale == 2

Min(a, b) == IF a < b THEN a ELSE b

\* BN.div: the quotient truncated toward zero (b > 0)
TruncDiv(a, b) == IF a >= 0 THEN a \div b ELSE 0 - ((0 - a) \div b)

NewRugPullDetector == [lpHistory |-> <<>>, supplyHistory |-> <<>>, monitoring |-> FALSE]

\* history.push(x), and shift beyond the cap
pushHistory(history, x) ==
    LET h == Append(history, x)
    IN  IF Len(h) > historyCap THEN Tail(h) ELSE h

\* history[history.length - 1], 0 for undefined
lastSupplyOf(history) == IF history = <<>> THEN 0 ELSE history[Len(history)].supply

\* What the catch blocks of the three checks return
FailedCheck == [supply |-> 0, changePercent |-> 0, suspicious |-> FALSE]
NoHolders == [topHolderPercent |-> 0, top10HolderPercent |-> 0, suspicious |-> FALSE]

\* diff.mul(100).div(previous): BN.div throws on a previous supply of 0
changePercentOf(current, previous) == TruncDiv((current - previous) * 100, previous)

\* `changePercent < -this.config.lpMonitoringEnabled ? 20 : 0` groups as
\* (changePercent < -lpMonitoringEnabled) ? 20 : 0, with -true = -1, -false = -0.
lpSuspicious(changePercent) ==
    changePercent < (IF lpMonitoringEnabled THEN 0 - 1 ELSE 0)

supplySuspicious(changePercent) == Abs(changePercent) > supplyChangeThresholdPercent

\* checkLPTokens that stores the status of a failed fetch as well
checkLPTokensStoresFailure(history, fetched) ==
    LET previous == lastSupplyOf(history)
        hasPrevious == history # <<>>
    IN  IF fetched.kind # "num" \/ (hasPrevious /\ previous = 0)
        THEN [history |-> pushHistory(history, FailedCheck), status |-> FailedCheck]
        ELSE LET changePercent ==
                     IF hasPrevious THEN changePercentOf(fetched.v, previous) ELSE 0
                 status == [supply |-> fetched.v, changePercent |-> changePercent,
                            suspicious |-> hasPrevious /\ lpSuspicious(changePercent)]
             IN  [history |-> pushHistory(history, status), status |-> status]

\* checkLPTokens with the answer of getTokenSupply: [history |-> lpHistory
\* afterwards, status |-> the LPStatus returned].  A failed fetch, or a
\* previous supply of 0, returns the zero status and stores nothing.
checkLPTokens(history, fetched) ==
    LET previous == lastSupplyOf(history)
        hasPrevious == history # <<>>
    IN  IF fetched.kind # "num" \/ (hasPrevious /\ previous = 0)
        THEN [history |-> history, status |-> FailedCheck]
        ELSE LET changePercent ==
                     IF hasPrevious THEN changePercentOf(fetched.v, previous) ELSE 0
                 status == [supply |-> fetched.v, changePercent |-> changePercent,
                            suspicious |-> hasPrevious /\ lpSuspicious(changePercent)]
             IN  [history |-> pushHistory(history, status), status |-> status]

\* checkSupplyChanges with the answer of getTokenSupply
checkSupplyChanges(history, fetched) ==
    LET previous == lastSupplyOf(history)
        hasPrevious == history # <<>>
    IN  IF fetched.kind # "num" \/ (hasPrevious /\ previous = 0)
        THEN [history |-> history, status |-> FailedCheck]
        ELSE LET changePercent ==
                     IF hasPrevious THEN changePercentOf(fetched.v, previous) ELSE 0
                 status == [supply |-> fetched.v, changePercent |-> changePercent,
                            suspicious |-> hasPrevious /\ supplySuspicious(changePercent)]
             IN  [history |-> pushHistory(history, status), status |-> status]

\* The first n elements of a sequence (slice(0, n))
FirstN(seq, n) == SubSeq(seq, 1, Min(n, Len(seq)))

\* checkHolderConcentration with the answers of getTokenLargestAccounts (the
\* amounts of the largest accounts, or a failure) and of getTokenSupply
checkHolderConcentration(largest, fetched) ==
    IF largest.kind # "accounts" THEN NoHolders
    ELSE IF largest.amounts = <<>> THEN NoHolders
    ELSE IF fetched.kind # "num" \/ fetched.v = 0 THEN NoHolders
    ELSE LET topHolderPercent == TruncDiv(largest.amounts[1] * 100, fetched.v)
             top10HolderPercent ==
                 TruncDiv(SumSeq(FirstN(largest.amounts, 10)) * 100, fetched.v)
         IN  [topHolderPercent |-> topHolderPercent,
              top10HolderPercent |-> top10HolderPercent,
              suspicious |-> \/ topHolderPercent > holderConcentrationThresholdPercent
                             \/ top10HolderPercent > 80]

\* calculateRisk: the score in halves, the level, and shouldExit
calculateRisk(lpStatus, supplyChange, holderConcentration) ==
    LET lpScore == IF lpStatus.suspicious
                   THEN Min(Abs(lpStatus.changePercent) * 2 * ScoreScale, 40 * ScoreScale)
                   ELSE 0
        supplyScore == IF supplyChange.suspicious
                       THEN Min((Abs(supplyChange.changePercent) * 3 * ScoreScale) \div 2,
                                30 * ScoreScale)
                       ELSE 0
        concentrationScore ==
            IF holderConcentration.suspicious
            THEN Min((holderConcentration.topHolderPercent * ScoreScale) \div 2,
                     30 * ScoreScale)
            ELSE 0
        score == lpScore + supplyScore + concentrationScore
        level == IF score >= 80 * ScoreScale THEN "critical"
                 ELSE IF score >= 60 * ScoreScale THEN "high"
                 ELSE IF score >= 40 * ScoreScale THEN "medium"
                 ELSE "low"
    IN  [kind |-> "risk", level |-> level, score |-> score,
         shouldExit |-> autoExitOnDetection /\ level \in {"critical", "high"}]

\* checkToken with the answers of its fetches (in.lp, in.supply: the answers
\* of getTokenSupply to the LP and the supply check; in.largest, in.total:
\* the answers to the holder check): [rug |-> the detector afterwards,
\* risk |-> the RugPullRisk returned].  The three checks catch their own
\* failures, so the catch of checkToken is not reached.
checkToken(d, in) ==
    LET lp == checkLPTokens(d.lpHistory, in.lp)
        sc == checkSupplyChanges(d.supplyHistory, in.supply)
        hc == checkHolderConcentration(in.largest, in.total)
    IN  [rug |-> [d EXCEPT !.lpHistory = lp.history, !.supplyHistory = sc.history],
         risk |-> calculateRisk(lp.status, sc.status, hc)]

NoFetch == [kind |-> "none"]
NoAnswers == [lp |-> NoFetch, supply |-> NoFetch, largest |-> NoFetch, total |-> NoFetch]
NoSupplies == [lp |-> 0, supply |-> 0]

\* No checkToken call yet
NoRisk == [risk |-> [kind |-> "null"], caller |-> "none", in |-> NoAnswers,
           before |-> NoSupplies, last |-> NoSupplies, failed |-> FALSE,
           exited |-> FALSE, since |-> {}]

---------------------------------------------------------------------------
(* MarketMaker: configuration and the arithmetic of a cycle.  A token      *)
(* amount is a BN of atomic units; a UI amount is atomic / 10^decimals; an *)
(* order size is an integer number of size units, SizeScale units = 1.     *)

SizeScale == 10

\* MarketMakerConfig, as index.ts builds it
baseDecimals == 2
quoteDecimals == 1
orderSize == 10 * SizeScale             \* BASE_TRADE_SIZE_QUOTE
orderRefreshInterval == 2               \* ORDER_REFRESH_TIME_SECONDS
errorBackoffMs == 3                     \* sleep(5000) after a failed cycle
\* The configuration Spec runs under
BotConfig == [orderRefreshInterval |-> orderRefreshInterval, enableStrategies |-> TRUE]
minInterval == 1                        \* enforceRateLimit
maxLossPercent == 10
maxPositionSize == 1000
targetInventoryRatioPercent == 50       \* targetInventoryRatio: 0.5
currentSlippageBps == 50                \* currentSlippage = 0.005
placeOrderInDecimals == 2               \* "Assuming SOL decimals"
placeOrderOutDecimals == 1              \* "Assuming token decimals"

RECURSIVE Pow10(_)
Pow10(d) == IF d = 0 THEN 1 ELSE 10 * Pow10(d - 1)

\* a / b rounded to the nearest integer, as toFixed rounds (a >= 0, b > 0)
RoundDiv(a, b) == (2 * a + b) \div (2 * b)

\* a > m * t without forming the product m * t (m > 0)
ExceedsProduct(a, m, t) == (a \div m > t) \/ (a \div m = t /\ a % m > 0)

\* BNMath.calculatePrice: (inAmount in UI) / (outAmount in UI), 0 for a zero
\* amount or a price that is not positive.
calculatePrice(inAmount, outAmount, inDecimals, outDecimals) ==
    IF inAmount = 0 \/ outAmount = 0 THEN 0
    ELSE LET price == (inAmount * Pow10(outDecimals) * PriceScale)
                         \div (outAmount * Pow10(inDecimals))
         IN  IF price <= 0 THEN 0 ELSE price

\* The value of an inventory at a price, base and quote, in one unit:
\* 1 / (PriceScale * 10^baseDecimals) of a quote token.
baseValueOf(inventory, price) == inventory.base * price
quoteValueOf(inventory) ==
    inventory.quote * PriceScale * Pow10(baseDecimals - quoteDecimals)
ValueUnit == PriceScale * Pow10(baseDecimals)

\* calculateInventoryRatio, kept as the fraction num / den; 0.5 when the
\* total value is 0.
calculateInventoryRatio(inventory, midPrice) ==
    LET baseValue == baseValueOf(inventory, midPrice)
        totalValue == baseValue + quoteValueOf(inventory)
    IN  IF totalValue = 0 THEN [num |-> 1, den |-> 2]
        ELSE [num |-> baseValue, den |-> totalValue]

\* Math.abs(ratio - target) > t, ratio > target + t, ratio < target - t, with
\* target and t in percent.
ratioOffTarget(r, target, t) == Abs(100 * r.num - target * r.den) > t * r.den
ratioAbove(r, target, t) == 100 * r.num > (target + t) * r.den
ratioBelow(r, target, t) == 100 * r.num < (target - t) * r.den

\* Logarithms and roots in fixed point: LnScale units = 1.
LnScale == 10000

\* ln(a / b) for a, b > 0, by 2 * atanh((a - b) / (a + b)), five terms.
LnRatio(a, b) ==
    LET z  == (Abs(a - b) * LnScale) \div (a + b)
        z2 == (z * z) \div LnScale
        z3 == (z * z2) \div LnScale
        z5 == (z3 * z2) \div LnScale
        z7 == (z5 * z2) \div LnScale
        z9 == (z7 * z2) \div LnScale
        v  == 2 * (z + z3 \div 3 + z5 \div 5 + z7 \div 7 + z9 \div 9)
    IN  IF a >= b THEN v ELSE 0 - v

\* floor(sqrt(x)) by bisection on lo..hi (lo * lo <= x < hi * hi)
RECURSIVE IsqrtIn(_, _, _)
IsqrtIn(x, lo, hi) ==
    IF hi - lo <= 1 THEN lo
    ELSE LET m == (lo + hi) \div 2
         IN  IF m * m <= x THEN IsqrtIn(x, m, hi) ELSE IsqrtIn(x, lo, m)

Isqrt(x) == IsqrtIn(x, 0, 46341)

\* updateVolatilityWindow: push, and shift beyond 20 price points.
updateVolatilityWindow(window, price) ==
    LET w == Append(window, price)
    IN  IF Len(w) > 20 THEN Tail(w) ELSE w

\* calculateVolatilityFactor: the standard deviation of the log returns of the
\* window times sqrt(252), in hundredths (PctScale units = 1); 0 below five
\* price points.  A window holding a price of 0 gives NaN in the code, which
\* every comparison treats as this 0.
calculateVolatilityFactor(window) ==
    IF Len(window) < 5 \/ \E i \in DOMAIN window : window[i] <= 0 THEN 0
    ELSE LET n == Len(window) - 1
             returns == [i \in 1..n |-> LnRatio(window[i + 1], window[i])]
             mean == SumSeq(returns) \div n
             variance ==
                 SumSeq([i \in 1..n |->
                            ((returns[i] - mean) * (returns[i] - mean)) \div LnScale])
                    \div n
         IN  (Isqrt(variance * 252) * PctScale) \div Isqrt(LnScale)

---------------------------------------------------------------------------
(* MarketMaker: the lifecycle.  A step is the code that runs between two   *)
(* awaits: it takes the machine as a record, runs the continuation of the  *)
(* await that settled up to the next adapter call or sleep, and yields the *)
(* machine with the wallet suspended there.                                *)

TradingWallets == <<"w1", "w2">>        \* walletManager.getTradingWallets()
Wallets == {TradingWallets[i] : i \in DOMAIN TradingWallets}
Pair == "BASE_QUOTE"                    \* config.baseMint, config.quoteMint

MaxOrders == 3      \* limit orders created at the venue
MaxRestarts == 1    \* process restarts
MaxFaults == 1      \* adapter calls that answer other than nominally
MaxMoves == 1       \* operator interventions (trip, reset, restart)

NoLocals == [price |-> 0, bidPrice |-> 0, askPrice |-> 0, activeOrders |-> <<>>,
             idx |-> 0, hasOrderState |-> FALSE, orderSize |-> 0,
             inAmount |-> 0, outAmount |-> 0, wake |-> 0]

NewMarketMaker(running) ==
    [isRunning |-> running,
     inventory |-> [w \in Wallets |-> Null],
     orderStates |-> [w \in Wallets |-> Null],
     safetyStates |-> [w \in Wallets |-> Null],
     rateLimits |-> [w \in Wallets |-> Undefined],
     volatilityWindow |-> <<>>,
     recentFills |-> [w \in Wallets |-> 0],
     strategies |-> [isPaused |-> FALSE]]   \* the VolatilityFilter's flag

NewProc == [start |-> "idle", i |-> 0, stop |-> "idle", si |-> 0,
            orders |-> <<>>, idx |-> 0, restarts |-> 0]

NewHist == [nextKey |-> 1, actor |-> "none", events |-> {},
            applied |-> [k \in 1..MaxOrders |-> 0], faults |-> 0, moves |-> 0,
            level |-> 2000, seen |-> 0, badQuote |-> {}, quotedVol |-> 0,
            feeds |-> 0, followCancels |-> FALSE, cancelled |-> {},
            askedPair |-> "none"]

\* The machine as one record, and the step that installs a record.
Cur == [cb |-> cb, pa |-> pa, mm |-> mm, pc |-> pc, loc |-> loc, proc |-> proc,
        venue |-> venue, hist |-> hist, lastTripAt |-> lastTripAt]

Install(s, name) ==
    /\ cb' = s.cb
    /\ pa' = s.pa
    /\ mm' = s.mm
    /\ pc' = s.pc
    /\ loc' = s.loc
    /\ proc' = s.proc
    /\ venue' = s.venue
    /\ hist' = s.hist
    /\ lastTripAt' = s.lastTripAt
    /\ op' = name
    /\ UNCHANGED <<now, resumes, priceOut, config, rug, riskOut>>

\* The machine at the start of a step of wallet w.
Begin(w) == [Cur EXCEPT !.hist.actor = w, !.hist.events = {}]

Did(s, e) == [s EXCEPT !.hist.events = @ \cup {e}]

\* An adapter call may answer other than nominally (throw, or answer with an
\* alarm, a pause or a failed feed) while fewer than MaxFaults have; such an
\* answer counts.
MayFail(bad) == bad => hist.faults < MaxFaults
Faulty(s, bad) == IF bad THEN [s EXCEPT !.hist.faults = @ + 1] ELSE s

\* getInventory: the wallet's entry, or a fresh zero inventory.
ZeroInventory == [base |-> 0, quote |-> 0, avgBuyPrice |-> 0]
getInventory(s, w) ==
    IF s.mm.inventory[w] # Null THEN s.mm.inventory[w] ELSE ZeroInventory

\* await this.sleep(ms)
sleep(s, w, ms) ==
    [s EXCEPT !.pc[w] = "sleep", !.loc[w] = [NoLocals EXCEPT !.wake = now + ms]]

\* runCycle returned: the loop sleeps orderRefreshInterval.
endCycle(s, w) == sleep(s, w, orderRefreshInterval)

\* An exception reached the catch of the loop: it sleeps 5000 ms.
failCycle(s, w) == sleep(Did(s, "cycleError"), w, errorBackoffMs)

\* loop() up to its first await: return when not running, else checkRugPull up
\* to the call of rugPullDetector.checkToken (startForWallet has set the
\* wallet's SafetyState before the loop begins).
loopEntry(s, w) ==
    IF ~s.mm.isRunning THEN [s EXCEPT !.pc[w] = "done", !.loc[w] = NoLocals]
    ELSE [s EXCEPT !.pc[w] = "checkToken", !.loc[w] = NoLocals]

\* |current - previous| / previous > 0.8 on the last two price points
drasticChange(window) ==
    /\ Len(window) > 1
    /\ LET current == window[Len(window)]
           previous == window[Len(window) - 1]
       IN  IF previous = 0 THEN current # 0
           ELSE Abs(current - previous) * 10 > 8 * Abs(previous)

\* ((avgBuyPrice - midPrice) / avgBuyPrice) * 100 in hundredths of a percent,
\* 0 without an average buy price
currentLossOf(inventory, midPrice) ==
    IF inventory.avgBuyPrice > 0
    THEN ((inventory.avgBuyPrice - midPrice) * 100 * PctScale)
            \div inventory.avgBuyPrice
    ELSE 0

\* runCycle from the price on, up to the call of strategies.getRecommendations
\* in calculateTargetPrices: the volatility window, checkConditions, and the
\* return with the wallet's circuitBreaker flag set when it trips.
afterPrice(s, w, price) ==
    LET window == updateVolatilityWindow(s.mm.volatilityWindow, price.midPrice)
        b1 == updatePriceHistory(s.cb, price.midPrice)
        volatility == calculateVolatilityFactor(window) * 100
        previousPrice == IF Len(window) > 1 THEN window[Len(window) - 1]
                         ELSE price.midPrice
        inventory == getInventory(s, w)
        currentLoss == currentLossOf(inventory, price.midPrice)
        r == checkConditions(b1, price.midPrice, previousPrice, currentLoss,
                             volatility, now)
        s1 == [s EXCEPT !.mm.volatilityWindow = window, !.cb = r.cb,
                        !.lastTripAt = IF ~b1.isOpen /\ r.cb.isOpen THEN now ELSE @]
    IN  IF r.result
        THEN endCycle([Did(s1, "tripped") EXCEPT
                          !.mm.safetyStates[w].circuitBreaker = TRUE], w)
        ELSE [s1 EXCEPT !.pc[w] = "getRecommendations",
                        !.loc[w] = [NoLocals EXCEPT !.price = price.midPrice],
                        !.hist.badQuote = IF price.midPrice <= 0 THEN @ \cup {w} ELSE @]

\* runCycle up to the fetches of getPrice: the two gates, then the cache.
runCycle(s, w) ==
    IF ~isTradingAllowed(s.cb) THEN endCycle(Did(s, "gateSkipped"), w)
    ELSE IF s.mm.safetyStates[w] = Null \/ s.mm.safetyStates[w].circuitBreaker
    THEN endCycle(Did(s, "gateSkipped"), w)
    ELSE LET cached == cachedPrice(s.pa, Pair, FALSE, now)
             s1 == Did(s, "gatePassed")
         IN  IF cached # Null THEN afterPrice(s1, w, cached)
             ELSE [s1 EXCEPT !.pc[w] = "getPrice"]

\* checkRugPull from the RiskAssessment on (risk: "exit", "ok" or "throw"),
\* then runCycle.
afterCheckToken(s, w, risk) ==
    IF risk = "throw" THEN failCycle(s, w)
    ELSE LET flag == risk = "exit" \/ drasticChange(s.mm.volatilityWindow)
             s1 == IF flag
                   THEN [Did(s, "flagged") EXCEPT
                            !.mm.safetyStates[w].rugPullDetected = TRUE]
                   ELSE s
         IN  runCycle(s1, w)

\* getPrice from the settled fetches on, then runCycle from the price on.
afterGetPrice(s, w, raws) ==
    LET r == aggregate(s.pa, Pair, raws, now)
        s1 == [s EXCEPT !.pa = r.pa]
    IN  IF r.result.kind = "error" THEN failCycle(s1, w)
        ELSE afterPrice(s1, w, r.result)

\* What strategies.getRecommendations answers: a pause, spreads (in basis
\* points of the mid price), or an exception.
Pause == [kind |-> "pause"]
Spread(b, a) == [kind |-> "spread", bidSpread |-> b, askSpread |-> a]

minSpreadBps == 5                       \* MIN_PROFIT_BPS

\* calculateTargetPrices without strategies: the spread in 1/100000, widened
\* by volatility and by inventory skew, at least minSpreadPercent.
defaultSpread(s, w, midPrice) ==
    LET volatilityFactor == calculateVolatilityFactor(s.mm.volatilityWindow)
        inventoryRatio == calculateInventoryRatio(getInventory(s, w), midPrice)
        sp0 == (spreadPercentBps * 10 * (200 + volatilityFactor)) \div 200
        sp1 == IF /\ ratioOffTarget(inventoryRatio, targetInventoryRatioPercent, 10)
                  /\ \/ ratioAbove(inventoryRatio, targetInventoryRatioPercent, 5)
                     \/ ratioBelow(inventoryRatio, targetInventoryRatioPercent, 5)
               THEN (sp0 * 13) \div 10 ELSE sp0
    IN  Max(sp1, minSpreadBps * 10)

calculateTargetPrices(s, w, midPrice, rec) ==
    IF rec.kind = "pause" THEN [bidPrice |-> midPrice, askPrice |-> midPrice]
    ELSE IF rec.kind = "spread"
    THEN [bidPrice |-> (midPrice * (10000 - rec.bidSpread)) \div 10000,
          askPrice |-> (midPrice * (10000 + rec.askSpread)) \div 10000]
    ELSE LET sp == defaultSpread(s, w, midPrice)
             \* midPrice * (1 -/+ spreadPercent / 2), rounded down
             half == midPrice * sp
         IN  [bidPrice |-> midPrice - (half + 199999) \div 200000,
              askPrice |-> midPrice + half \div 200000]

\* calculateTargetPrices from the recommendations on, up to the call of
\* jupiterOrders.getActiveOrders.
afterRecommendations(s, w, rec) ==
    LET t == calculateTargetPrices(s, w, s.loc[w].price, rec)
    IN  [s EXCEPT !.pc[w] = "getActiveOrders",
                  !.loc[w].bidPrice = t.bidPrice, !.loc[w].askPrice = t.askPrice]

\* updateInventoryOnFill
updateInventoryOnFill(inventory, side, order) ==
    IF side = "buy"
    THEN LET base == inventory.base + order.outAmount
         IN  [base |-> base,
              quote |-> inventory.quote - order.inAmount,
              avgBuyPrice |->
                  IF inventory.avgBuyPrice = 0 THEN order.price
                  ELSE IF base = 0 THEN 0
                  ELSE ((base - order.outAmount) * inventory.avgBuyPrice
                            + base * order.price) \div base]
    ELSE [inventory EXCEPT !.base = @ - order.inAmount,
                           !.quote = @ + order.outAmount]

\* checkSlot without the assignment that clears the slot
checkSlotKeepsOrder(s, w, slot, side, activeOrders) ==
    LET order == s.mm.orderStates[w][slot]
        stillActive == \E i \in DOMAIN activeOrders :
                          activeOrders[i].orderKey = order.orderKey
    IN  IF order = Null \/ stillActive THEN s
        ELSE [s EXCEPT
                !.mm.inventory[w] = updateInventoryOnFill(getInventory(s, w), side, order),
                !.mm.recentFills[w] = @ + 1,
                !.hist.applied[order.orderKey] = @ + 1]

\* One side of checkForFills: the order of the slot is applied and the slot
\* cleared when its key is not among the active orders.
checkSlot(s, w, slot, side, activeOrders) ==
    LET order == s.mm.orderStates[w][slot]
        stillActive == \E i \in DOMAIN activeOrders :
                          activeOrders[i].orderKey = order.orderKey
    IN  IF order = Null \/ stillActive THEN s
        ELSE [s EXCEPT
                !.mm.inventory[w] = updateInventoryOnFill(getInventory(s, w), side, order),
                !.mm.recentFills[w] = @ + 1,
                !.mm.orderStates[w][slot] = Null,
                !.hist.applied[order.orderKey] = @ + 1]

checkForFills(s, w, activeOrders) ==
    IF s.mm.orderStates[w] = Null THEN s
    ELSE checkSlot(checkSlot(s, w, "bid", "buy", activeOrders),
                   w, "ask", "sell", activeOrders)

\* The open orders of a wallet as getActiveOrders lists them, by order key.
RECURSIVE OrdersByKey(_, _, _)
OrdersByKey(orders, w, k) ==
    IF k > MaxOrders THEN <<>>
    ELSE LET here == {o \in orders : o.owner = w /\ o.orderKey = k}
         IN  (IF here = {} THEN <<>> ELSE <<CHOOSE o \in here : TRUE>>)
                \o OrdersByKey(orders, w, k + 1)

getActiveOrders(orders, w) == OrdersByKey(orders, w, 1)

isBidOrder(order) == order.inputMint = "quote"

\* cancelStaleOrders: the price of the order, always by calculatePrice with
\* (quoteDecimals, baseDecimals), against the target of its side;
\* |orderPrice - targetPrice| / targetPrice > currentSlippage.
isStale(order, targetBid, targetAsk) ==
    LET orderPrice == calculatePrice(order.inAmount, order.outAmount,
                                     quoteDecimals, baseDecimals)
        targetPrice == IF isBidOrder(order) THEN targetBid ELSE targetAsk
    IN  IF targetPrice = 0 THEN orderPrice # 0
        ELSE Abs(orderPrice - targetPrice) * 10000 > currentSlippageBps * targetPrice

\* autoBalanceInventory up to its market order: which order, if any, and the
\* token amount.  Values are in 1 / ValueUnit of a quote token; the rebalance
\* amount is a quarter of |totalValue * targetRatio - baseValue|.
rebalanceOrder(inventory, bidPrice, askPrice) ==
    LET midPrice == (bidPrice + askPrice) \div 2
        inventoryRatio == calculateInventoryRatio(inventory, midPrice)
        baseValue == baseValueOf(inventory, midPrice)
        totalValue == baseValue + quoteValueOf(inventory)
        rebalanceAmount ==
            Abs(totalValue * targetInventoryRatioPercent - 100 * baseValue) \div 400
    IN  IF ~ratioOffTarget(inventoryRatio, targetInventoryRatioPercent, 30)
           \/ totalValue = 0
        THEN [kind |-> "none", amount |-> 0]
        ELSE IF ratioAbove(inventoryRatio, targetInventoryRatioPercent, 10)
        THEN IF rebalanceAmount * SizeScale * 100
                  > orderSize * Pow10(baseDecimals) * midPrice
             THEN [kind |-> "sell", amount |-> RoundDiv(rebalanceAmount, midPrice)]
             ELSE [kind |-> "none", amount |-> 0]
        ELSE IF ratioBelow(inventoryRatio, targetInventoryRatioPercent, 10)
        THEN IF rebalanceAmount * SizeScale * 100 > orderSize * ValueUnit
             THEN [kind |-> "buy",
                   amount |-> RoundDiv(rebalanceAmount * Pow10(quoteDecimals),
                                       ValueUnit)]
             ELSE [kind |-> "none", amount |-> 0]
        ELSE [kind |-> "none", amount |-> 0]

\* performSafetyChecks
performSafetyChecks(s, w, inventory, bidPrice, askPrice) ==
    LET safetyState == s.mm.safetyStates[w]
        currentPrice == (bidPrice + askPrice) \div 2
        positionValue == baseValueOf(inventory, bidPrice)
        totalFunds == positionValue + quoteValueOf(inventory)
    IN  /\ safetyState # Null
        /\ ~safetyState.circuitBreaker
        /\ ~safetyState.rugPullDetected
        /\ ~(/\ inventory.avgBuyPrice > 0
             /\ (inventory.avgBuyPrice - currentPrice) * 100
                   > maxLossPercent * inventory.avgBuyPrice)
        /\ ~(totalFunds > 0 /\ ExceedsProduct(positionValue * 100, maxPositionSize, totalFunds))

\* calculateSafeOrderSize, in size units: half the order size when the
\* inventory ratio at avgBuyPrice || 1 is off target by more than 0.1 (the
\* branch for 0.2 is never reached), times 0.7 above a volatility of 0.5.
calculateSafeOrderSize(s, w, inventory) ==
    LET inventoryRatio ==
            calculateInventoryRatio(inventory,
                IF inventory.avgBuyPrice # 0 THEN inventory.avgBuyPrice
                ELSE PriceScale)
        half == ratioOffTarget(inventoryRatio, targetInventoryRatioPercent, 10)
        size == IF half THEN orderSize \div 2 ELSE orderSize
    IN  IF calculateVolatilityFactor(s.mm.volatilityWindow) > 50
        THEN (size * 7) \div 10 ELSE size

\* tryAsk without the test of the base balance
tryAskUnchecked(s, w) ==
    LET size == s.loc[w].orderSize
        askPrice == s.loc[w].askPrice
        askOpen == s.loc[w].hasOrderState /\ s.mm.orderStates[w].ask # Null
    IN  IF ~askOpen /\ askPrice > 0
        THEN [Did(s, "placeAsk") EXCEPT
                !.pc[w] = "placeAsk",
                !.loc[w].inAmount = RoundDiv(size * PriceScale * Pow10(baseDecimals),
                                             SizeScale * askPrice),
                !.loc[w].outAmount = RoundDiv(size * Pow10(quoteDecimals), SizeScale)]
        ELSE endCycle(s, w)

\* placeNewOrders from the ask on: the call of placeOrder for an ask when the
\* slot captured at the start is empty and the base balance covers it (an
\* ask price of 0 makes orderSize / askPrice Infinity, which no balance
\* covers), else the end of the cycle.
tryAsk(s, w) ==
    LET inventory == getInventory(s, w)
        size == s.loc[w].orderSize
        askPrice == s.loc[w].askPrice
        askOpen == s.loc[w].hasOrderState /\ s.mm.orderStates[w].ask # Null
    IN  IF /\ ~askOpen
           /\ askPrice > 0
           /\ inventory.base * SizeScale * askPrice
                 >= size * PriceScale * Pow10(baseDecimals)
        THEN [Did(s, "placeAsk") EXCEPT
                !.pc[w] = "placeAsk",
                !.loc[w].inAmount = RoundDiv(size * PriceScale * Pow10(baseDecimals),
                                             SizeScale * askPrice),
                !.loc[w].outAmount = RoundDiv(size * Pow10(quoteDecimals), SizeScale)]
        ELSE endCycle(s, w)

\* placeNewOrders from the bid on: the call of placeOrder for a bid when the
\* captured slot is empty and the quote balance covers the order size
\* (toTokenAmount throws on orderSize / 0, and the catch logs it), else the
\* ask.
tryBid(s, w) ==
    LET inventory == getInventory(s, w)
        size == s.loc[w].orderSize
        bidPrice == s.loc[w].bidPrice
        bidOpen == s.loc[w].hasOrderState /\ s.mm.orderStates[w].bid # Null
    IN  IF /\ ~bidOpen
           /\ inventory.quote * SizeScale >= size * Pow10(quoteDecimals)
           /\ bidPrice > 0
        THEN [Did(s, "placeBid") EXCEPT
                !.pc[w] = "placeBid",
                !.loc[w].inAmount = RoundDiv(size * Pow10(quoteDecimals), SizeScale),
                !.loc[w].outAmount = RoundDiv(size * PriceScale * Pow10(baseDecimals),
                                              SizeScale * bidPrice)]
        ELSE tryAsk(s, w)

\* placeNewOrders up to its first await: the captured OrderState, the safety
\* checks, the order size, and enforceRateLimit, which sleeps out the rest of
\* minInterval or stamps the wallet and goes on to detectSandwichAttack.
placeNewOrders(s, w) ==
    LET inventory == getInventory(s, w)
        s1 == [s EXCEPT !.loc[w].hasOrderState = s.mm.orderStates[w] # Null,
                        !.loc[w].orderSize = calculateSafeOrderSize(s, w, inventory)]
        lastOrder == s.mm.rateLimits[w]
    IN  IF ~performSafetyChecks(s, w, inventory, s.loc[w].bidPrice, s.loc[w].askPrice)
        THEN endCycle(Did(s, "safetyChecksFailed"), w)
        ELSE IF lastOrder # Undefined /\ now - lastOrder < minInterval
        THEN [s1 EXCEPT !.pc[w] = "rateLimit",
                        !.loc[w].wake = now + (minInterval - (now - lastOrder))]
        ELSE [s1 EXCEPT !.mm.rateLimits[w] = now, !.pc[w] = "sandwich"]

\* autoBalanceInventory up to its market order, else placeNewOrders.
autoBalanceInventory(s, w) ==
    LET r == rebalanceOrder(getInventory(s, w), s.loc[w].bidPrice, s.loc[w].askPrice)
    IN  IF r.kind = "none" THEN placeNewOrders(s, w)
        ELSE [Did(s, "marketOrder") EXCEPT !.pc[w] = "marketOrder",
                                            !.loc[w].inAmount = r.amount]

\* cancelStaleOrders from the i-th active order on: up to the call of
\* cancelOrder for the next stale order, else autoBalanceInventory.
RECURSIVE cancelStaleOrders(_, _, _)
cancelStaleOrders(s, w, i) ==
    IF i > Len(s.loc[w].activeOrders) THEN autoBalanceInventory(s, w)
    ELSE IF isStale(s.loc[w].activeOrders[i], s.loc[w].bidPrice, s.loc[w].askPrice)
    THEN [Did(s, "cancelOrder") EXCEPT !.pc[w] = "cancelOrder", !.loc[w].idx = i]
    ELSE cancelStaleOrders(s, w, i + 1)

\* cancelOrder has taken the order off the venue.  (hist.cancelled collects
\* the keys of such orders in the analyses that follow them.)
OffVenue(s, order) ==
    [s EXCEPT !.venue = @ \ {order},
              !.hist.cancelled = IF s.hist.followCancels THEN @ \cup {order.orderKey}
                                 ELSE @]

\* The continuation of cancelOrder: on success the order is off the venue and
\* the slot of its side is cleared; a failure is logged.
afterCancel(s, w, ok) ==
    LET order == s.loc[w].activeOrders[s.loc[w].idx]
        slot == IF isBidOrder(order) THEN "bid" ELSE "ask"
        s1 == IF ~ok THEN s
              ELSE IF s.mm.orderStates[w] = Null
              THEN OffVenue(s, order)
              ELSE [OffVenue(s, order) EXCEPT !.mm.orderStates[w][slot] = Null]
    IN  cancelStaleOrders(s1, w, s.loc[w].idx + 1)

\* runCycle from the active orders on: checkForFills, then cancelStaleOrders.
afterActiveOrders(s, w, ok) ==
    IF ~ok THEN failCycle(s, w)
    ELSE LET activeOrders == getActiveOrders(s.venue, w)
             s1 == checkForFills(Did(s, "checkForFills"), w, activeOrders)
         IN  cancelStaleOrders([s1 EXCEPT !.loc[w].activeOrders = activeOrders], w, 1)

\* The continuation of placeOrder (outcome "ok": the order is open and
\* returned; "lost": it is open but the call threw; "fail": it threw and no
\* order exists).  updateOrderState records a returned order, creating the
\* wallet's OrderState when there is none.
newOrder(s, w, side) ==
    [orderKey |-> s.hist.nextKey, owner |-> w,
     inputMint |-> IF side = "bid" THEN "quote" ELSE "base",
     inAmount |-> s.loc[w].inAmount, outAmount |-> s.loc[w].outAmount,
     price |-> calculatePrice(s.loc[w].inAmount, s.loc[w].outAmount,
                              placeOrderInDecimals, placeOrderOutDecimals)]

updateOrderState(s, w, side, order) ==
    LET state == IF s.mm.orderStates[w] = Null THEN [bid |-> Null, ask |-> Null]
                 ELSE s.mm.orderStates[w]
    IN  [s EXCEPT !.mm.orderStates[w] = [state EXCEPT ![side] = order]]

afterPlaceOrder(s, w, side, outcome) ==
    LET order == newOrder(s, w, side)
        landed == [s EXCEPT !.venue = @ \cup {order}, !.hist.nextKey = @ + 1]
    IN  IF outcome = "ok" THEN updateOrderState(landed, w, side, order)
        ELSE IF outcome = "lost" THEN landed
        ELSE s

\* The MarketMaker as constructed, before start().
MakerIdle ==
    /\ mm = NewMarketMaker(FALSE)
    /\ pc = [w \in Wallets |-> "idle"]
    /\ loc = [w \in Wallets |-> NoLocals]
    /\ proc = NewProc
    /\ venue = {}
    /\ hist = NewHist

---------------------------------------------------------------------------
(* The breaker's operations as steps *)

\* What the breaker's steps leave alone.
oracleState == <<pa, priceOut>>
makerState == <<mm, pc, loc, proc, venue, config>>
detectorState == <<rug, riskOut>>

\* A step outside the lifecycle: the adapter calls of the last lifecycle step
\* are no longer the last thing that happened.
Outside == hist' = [hist EXCEPT !.actor = "none", !.events = {}]

\* The history of effective trips, kept by every step that may trip.
TripTime(b, b2) == IF ~b.isOpen /\ b2.isOpen THEN now ELSE lastTripAt

\* Time passes between steps, but not past a sleep that is due (its timer
\* fires first) and not while an adapter call is pending: a call settles
\* within the tick that issued it.
Tick ==
    /\ now < MaxTime
    /\ \A w \in Wallets : /\ pc[w] \in {"idle", "sleep", "done"}
                          /\ pc[w] = "sleep" => now < loc[w].wake
    /\ proc.stop \in {"idle", "done"}
    /\ now' = now + 1
    /\ op' = "tick"
    /\ lastTripAt' = IF now + 1 - lastTripAt < cooldownPeriodMs THEN lastTripAt ELSE 0
    /\ UNCHANGED <<cb, resumes, oracleState, makerState, detectorState>> /\ Outside

\* The inputs checkConditions is called with: prices in price units, loss and
\* volatility in hundredths of a percent.
CheckInputs ==
    { [cur |-> 100, prev |-> 100, loss |-> 0,    vol |-> 0],
      [cur |-> 160, prev |-> 100, loss |-> 0,    vol |-> 0],
      [cur |-> 100, prev |-> 100, loss |-> 0,    vol |-> 15000],
      [cur |-> 100, prev |-> 100, loss |-> 2000, vol |-> 0],
      [cur |-> 160, prev |-> 100, loss |-> 2000, vol |-> 15000],
      [cur |-> 100, prev |-> 100, loss |-> 2000, vol |-> 15000] }

CheckConditions(in) ==
    LET r == checkConditions(cb, in.cur, in.prev, in.loss, in.vol, now)
    IN  /\ cb' = r.cb
        /\ lastTripAt' = TripTime(cb, r.cb)
        /\ op' = "checkConditions"
        /\ UNCHANGED <<now, resumes, oracleState, makerState, detectorState>> /\ Outside

manualTripCall ==
    /\ cb' = manualTrip(cb, now)
    /\ lastTripAt' = TripTime(cb, cb')
    /\ op' = "manualTrip"
    /\ UNCHANGED <<now, resumes, oracleState, makerState, detectorState>>

ManualTrip == manualTripCall /\ Outside

\* reset(): the fields, and clearInterval on the timer resumeInterval names.
resetCall ==
    /\ cb' = reset(cb, now)
    /\ resumes' = IF cb' # cb /\ cb.resumeInterval # Undefined
                  THEN clearInterval(resumes, cb.resumeInterval)
                  ELSE resumes
    /\ op' = "reset"
    /\ UNCHANGED <<now, lastTripAt, oracleState, makerState, detectorState>>

Reset == resetCall /\ Outside

\* gradualResume(onStepComplete) up to the creation of its promise: the early
\* returns, resumeStep = 0, and setInterval, whose handle overwrites
\* resumeInterval.
GradualResume ==
    /\ Len(resumes) < MaxResumes
    /\ op' = "gradualResume"
    /\ IF ~cb.isOpen \/ cooldownNotElapsed(cb, now)
       THEN UNCHANGED <<cb, resumes>>
       ELSE /\ resumes' = Append(resumes,
                  [active |-> TRUE, next |-> now + gradualResumeIntervalMs,
                   inflight |-> 0, calls |-> 0, resolved |-> FALSE])
            /\ cb' = [cb EXCEPT !.resumeStep = 0,
                                !.resumeInterval = Len(resumes) + 1]
    /\ UNCHANGED <<now, lastTripAt, oracleState, makerState, detectorState>> /\ Outside

\* One firing of the interval timer id, up to the await: resumeStep++ and the
\* call of onStepComplete(resumeStep, steps).
TimerFire(id) ==
    /\ id \in DOMAIN resumes
    /\ resumes[id].active
    /\ now >= resumes[id].next
    /\ cb' = [cb EXCEPT !.resumeStep = @ + 1]
    /\ resumes' = [resumes EXCEPT ![id].next = now + gradualResumeIntervalMs,
                                  ![id].inflight = @ + 1, ![id].calls = @ + 1]
    /\ op' = "timerFire"
    /\ UNCHANGED <<now, lastTripAt, oracleState, makerState, detectorState>> /\ Outside

\* The rest of a firing, once onStepComplete has settled (resolved or thrown,
\* the catch only logs): the completion test, clearInterval, reset, resolve.
StepDone(id) ==
    /\ id \in DOMAIN resumes
    /\ resumes[id].inflight > 0
    /\ op' = IF cb.resumeStep >= gradualResumeSteps /\ ~resumes[id].resolved
             THEN "resumeDone" ELSE "stepDone"
    /\ LET rs1 == [resumes EXCEPT ![id].inflight = @ - 1]
       IN  IF cb.resumeStep >= gradualResumeSteps
           THEN LET rs2 == IF cb.resumeInterval # Undefined
                           THEN clearInterval(rs1, cb.resumeInterval) ELSE rs1
                    b1  == [cb EXCEPT !.resumeInterval = Undefined]
                IN  /\ cb' = reset(b1, now)
                    /\ resumes' = [rs2 EXCEPT ![id].resolved = TRUE]
           ELSE /\ cb' = cb
                /\ resumes' = rs1
    /\ UNCHANGED <<now, lastTripAt, oracleState, makerState, detectorState>> /\ Outside

MaxFailures == 3    \* recordFailure calls counted by consecutiveFailures

RecordFailure ==
    /\ cb.consecutiveFailures < MaxFailures
    /\ cb' = recordFailure(cb)
    /\ op' = "recordFailure"
    /\ UNCHANGED <<now, resumes, lastTripAt, oracleState, makerState, detectorState>> /\ Outside

RecordSuccess ==
    /\ cb' = recordSuccess(cb)
    /\ op' = "recordSuccess"
    /\ UNCHANGED <<now, resumes, lastTripAt, oracleState, makerState, detectorState>> /\ Outside

InitBreaker ==
    /\ now = 1
    /\ cb = NewCircuitBreaker
    /\ resumes = <<>>
    /\ op = "init"
    /\ lastTripAt = 0
    /\ pa = NewPriceAggregator({Pair})
    /\ priceOut = Null
    /\ rug = NewRugPullDetector
    /\ riskOut = NoRisk
    /\ config = BotConfig
    /\ MakerIdle

NextBreaker ==
    \/ Tick
    \/ \E in \in CheckInputs : CheckConditions(in)
    \/ ManualTrip
    \/ Reset
    \/ GradualResume
    \/ \E id \in 1..MaxResumes : TimerFire(id)
    \/ \E id \in 1..MaxResumes : StepDone(id)
    \/ RecordFailure
    \/ RecordSuccess

SpecBreaker == InitBreaker /\ [][NextBreaker]_vars

---------------------------------------------------------------------------
(* Claims about the circuit breaker, checked under SpecBreaker *)

\* The breaker is within cooldownPeriodMs of its last effective trip.
InCooldown == lastTripAt # 0 /\ now - lastTripAt < cooldownPeriodMs

\* C6: from the moment the breaker trips until cooldownPeriodMs has elapsed,
\* no step (reset, gradualResume and its timer, checkConditions, recordSuccess,
\* recordFailure) makes isTradingAllowed() true, and a reset() called on an
\* open breaker before the cooldown has elapsed changes no field of the
\* breaker and clears no timer.
C6_CooldownKeepsOpen ==
    [][ /\ (InCooldown' => ~isTradingAllowed(cb'))
        /\ (op' = "reset" /\ cb.isOpen /\ cooldownNotElapsed(cb, now)
               => cb' = cb /\ resumes' = resumes) ]_vars

\* C6 witness: reset() has just been called inside the cooldown of an open
\* breaker that already saw recorded failures.
C6_Witness ==
    op = "reset" /\ cb.isOpen /\ InCooldown /\ cb.consecutiveFailures > 0

TripOps == {"checkConditions", "manualTrip"}

\* C7: a trip attempt (trip through manualTrip or checkConditions) on a breaker
\* that is already open leaves triggeredAt and triggerReason as the first trip
\* set them.
C7_TripIdempotent ==
    [][ (cb.isOpen /\ op' \in TripOps)
           => /\ cb'.triggeredAt = cb.triggeredAt
              /\ cb'.triggerReason = cb.triggerReason ]_vars

\* C7 witness: manualTrip was called, at a later time, on a breaker that a
\* price deviation had opened.
C7_Witness ==
    /\ op = "manualTrip" /\ cb.isOpen
    /\ cb.triggerReason.type = "price_deviation" /\ now > cb.triggeredAt

\* C8: when the promise of a gradualResume sequence, run alone, resolves (op =
\* "resumeDone"), the step callback has been invoked exactly gradualResumeSteps
\* times and the breaker is closed with consecutiveFailures = 0.
C8_ExactlyNSteps ==
    \A id \in DOMAIN resumes :
        (Len(resumes) = 1 /\ resumes[id].resolved /\ op = "resumeDone")
            => /\ resumes[id].calls = gradualResumeSteps
               /\ ~cb.isOpen /\ cb.consecutiveFailures = 0

---------------------------------------------------------------------------
(* The price oracle on its own: getPrice calls for two pairs against one   *)
(* PriceAggregator, with every mix of feed answers below.                  *)

Pairs == {"BASE_QUOTE", "OTHER_QUOTE"}

Throws == [kind |-> "throw"]
NotANumber == [kind |-> "nan"]
Infinite == [kind |-> "inf"]

\* What the four feeds answer to one getPrice call.
FeedAnswers ==
    { <<Num(2000), Num(2000), Num(2000), Num(2000)>>,
      <<Num(2000), Num(2200), Throws, Throws>>,
      <<Num(2000), Num(2000), Num(2000), Num(4000)>>,
      <<Num(1000), Num(3000), Throws, NotANumber>>,
      <<Num(1000), Num(2000), Num(3000), Throws>>,
      <<Num(2000), Throws, Num(0), Infinite>>,
      <<Throws, NotANumber, Num(0 - 100), Num(0)>>,
      <<Num(4000), Num(4000), Num(4000), Num(4000)>>,
      <<Num(800), Num(800), Throws, Num(800)>> }

GetPrice(pair, forceRefresh, raws) ==
    LET r == getPrice(pa, pair, forceRefresh, raws, now)
    IN  /\ pa' = r.pa
        /\ priceOut' = r.result
        /\ op' = "getPrice"
        /\ hist' = [hist EXCEPT !.actor = "none", !.events = {}, !.askedPair = pair]
        /\ UNCHANGED <<now, cb, resumes, lastTripAt, makerState, detectorState>>

ClearCache ==
    /\ pa' = [pa EXCEPT !.cache = [p \in DOMAIN pa.cache |-> Null]]
    /\ op' = "clearCache"
    /\ UNCHANGED <<now, cb, resumes, lastTripAt, priceOut, makerState, detectorState>> /\ Outside

InitOracle ==
    /\ now = 1
    /\ cb = NewCircuitBreaker
    /\ resumes = <<>>
    /\ op = "init"
    /\ lastTripAt = 0
    /\ pa = NewPriceAggregator(Pairs)
    /\ priceOut = Null
    /\ rug = NewRugPullDetector
    /\ riskOut = NoRisk
    /\ config = BotConfig
    /\ MakerIdle

NextOracle ==
    \/ Tick
    \/ \E pair \in Pairs, forceRefresh \in BOOLEAN, raws \in FeedAnswers :
          GetPrice(pair, forceRefresh, raws)
    \/ ClearCache

SpecOracle == InitOracle /\ [][NextOracle]_vars

\* C3: every AggregatedPrice that getPrice returns, on the cached, aggregated,
\* dampened and fallback paths, has a midPrice greater than zero.
C3_MidPricePositive ==
    (op = "getPrice" /\ priceOut.kind = "price") => priceOut.midPrice > 0

---------------------------------------------------------------------------
(* The lifecycle as steps: one per await of startForWallet, start and stop *)

\* What getTokenAccountsByOwner shows of a wallet, or its failure
Balances ==
    { [base |-> 500, quote |-> 100, avgBuyPrice |-> 0],
      [base |-> 0,   quote |-> 200, avgBuyPrice |-> 0] }

NewSafetyState == [circuitBreaker |-> FALSE, rugPullDetected |-> FALSE]

\* startForWallet up to the await of initializeInventory
startForWallet(s, w) == [s EXCEPT !.pc[w] = "initializeInventory"]

\* start(): the first wallet's startForWallet.
Start ==
    /\ proc.start = "idle"
    /\ Install(startForWallet([Begin(TradingWallets[1]) EXCEPT
                                  !.proc.start = "running", !.proc.i = 1],
                              TradingWallets[1]),
               "start")

\* The rest of initializeInventory (balances, and empty order slots unless the
\* fetch failed) and of startForWallet: SafetyState, then the loop.
InitializeInventoryDone(w, balances) ==
    /\ pc[w] = "initializeInventory"
    /\ MayFail(balances = Throws)
    /\ LET s == Faulty(Begin(w), balances = Throws)
           s1 == IF balances = Throws
                 THEN [s EXCEPT !.mm.inventory[w] = ZeroInventory]
                 ELSE [s EXCEPT !.mm.inventory[w] = balances,
                                !.mm.orderStates[w] = [bid |-> Null, ask |-> Null]]
           s2 == [s1 EXCEPT !.mm.safetyStates[w] = NewSafetyState]
       IN  Install(loopEntry(s2, w), "initializeInventory")

\* start() once the startForWallet it awaits has returned: the next wallet, or
\* the end of start().
StartNextWallet ==
    /\ proc.start = "running"
    /\ pc[TradingWallets[proc.i]] = "done"
    /\ LET s == [Cur EXCEPT !.hist.actor = "start", !.hist.events = {}]
       IN  IF proc.i < Len(TradingWallets)
           THEN Install(startForWallet([s EXCEPT !.proc.i = @ + 1],
                                       TradingWallets[proc.i + 1]),
                        "startNext")
           ELSE Install([s EXCEPT !.proc.start = "returned"], "startReturned")

RiskAnswers == {"ok", "exit"}

CheckTokenDone(w, risk) ==
    /\ pc[w] = "checkToken"
    /\ MayFail(risk # "ok")
    /\ Install(afterCheckToken(Faulty(Begin(w), risk # "ok"), w, risk), "checkToken")

\* The prices the market trades at, and the answer of four feeds that all
\* report the price.
Levels == {2000, 4000}
Steady(level) == <<Num(level), Num(level), Num(level), Num(level)>>

\* What the feeds answer during a cycle: the price the market trades at, or
\* other than nominally.
CycleFeeds ==
    {Steady(level) : level \in Levels}
        \cup { <<Num(1000), Num(3000), Throws, NotANumber>>,
               <<Throws, Throws, Throws, Throws>> }

GetPriceDone(w, raws) ==
    LET bad == \E i \in DOMAIN raws : raws[i].kind # "num"
        far == ~bad /\ Shock(pa.lastPrice, hist.level)
        s == Faulty(Begin(w), bad)
    IN  /\ pc[w] = "getPrice"
        /\ MayFail(bad)
        /\ ~bad => raws = Steady(hist.level)
        /\ Install(afterGetPrice(IF far THEN [s EXCEPT !.hist.seen = @ + 1] ELSE s,
                                 w, raws),
                   "getPrice")

\* The market moves to another price and stays there; the move counts as an
\* off-nominal answer of the feeds.
MarketMove(level) ==
    /\ level # hist.level
    /\ hist.faults < MaxFaults
    /\ hist' = [hist EXCEPT !.actor = "none", !.events = {}, !.faults = @ + 1,
                            !.level = level]
    /\ op' = "marketMove"
    /\ UNCHANGED <<now, cb, resumes, lastTripAt, oracleState, makerState, detectorState>>

Recommendations == {Pause, Spread(100, 100), Throws}

GetRecommendationsDone(w, rec) ==
    /\ pc[w] = "getRecommendations"
    /\ MayFail(rec.kind # "spread")
    /\ Install(afterRecommendations(Faulty(Begin(w), rec.kind # "spread"), w, rec),
               "getRecommendations")

GetActiveOrdersDone(w, ok) ==
    /\ pc[w] = "getActiveOrders"
    /\ MayFail(~ok)
    /\ Install(afterActiveOrders(Faulty(Begin(w), ~ok), w, ok), "getActiveOrders")

\* cancelOrder succeeds only on an order that is open.
CancelOrderDone(w, ok) ==
    /\ pc[w] = "cancelOrder"
    /\ ok => loc[w].activeOrders[loc[w].idx] \in venue
    /\ MayFail(~ok)
    /\ Install(afterCancel(Faulty(Begin(w), ~ok), w, ok), "cancelOrder")

\* buyMarketOrder or sellMarketOrder settled; a failure is logged.
MarketOrderDone(w) ==
    /\ pc[w] = "marketOrder"
    /\ Install(placeNewOrders(Begin(w), w), "marketOrder")

\* The sleep of enforceRateLimit is over: the stamp, then the sandwich check.
\* (No behaviour takes this step: two placeNewOrders of a wallet are at least
\* orderRefreshInterval apart, which is no less than minInterval.)
RateLimitDone(w) ==
    /\ pc[w] = "rateLimit"
    /\ now >= loc[w].wake
    /\ Install([Begin(w) EXCEPT !.mm.rateLimits[w] = now, !.pc[w] = "sandwich"],
               "rateLimit")

SandwichDone(w, detected) ==
    /\ pc[w] = "sandwich"
    /\ MayFail(detected)
    /\ Install(IF detected THEN endCycle(Did(Faulty(Begin(w), detected), "sandwich"), w)
               ELSE tryBid(Begin(w), w),
               "detectSandwichAttack")

PlaceOutcomes == {"ok", "fail"}

\* placeOrder creates an order only with both amounts positive
\* (validateOrderParams) and a free order key.
CanLand(w) ==
    /\ loc[w].inAmount > 0
    /\ loc[w].outAmount > 0
    /\ hist.nextKey <= MaxOrders

PlaceBidDone(w, outcome) ==
    /\ pc[w] = "placeBid"
    /\ outcome # "fail" => CanLand(w)
    /\ MayFail(outcome # "ok")
    /\ Install(tryAsk(afterPlaceOrder(Faulty(Begin(w), outcome # "ok"),
                                      w, "bid", outcome), w),
               "placeBid")

PlaceAskDone(w, outcome) ==
    /\ pc[w] = "placeAsk"
    /\ outcome # "fail" => CanLand(w)
    /\ MayFail(outcome # "ok")
    /\ Install(endCycle(afterPlaceOrder(Faulty(Begin(w), outcome # "ok"),
                                        w, "ask", outcome), w),
               "placeAsk")

\* The sleep of the loop is over: await loop().
SleepDone(w) ==
    /\ pc[w] = "sleep"
    /\ now >= loc[w].wake
    /\ Install(loopEntry(Begin(w), w), "loop")

\* stop() from its i-th wallet on: cancelAllOrders up to the await of
\* getActiveOrders, or the end of stop() (autoWithdrawProfits only logs).
stopWallet(s, i) ==
    IF i > Len(TradingWallets)
    THEN [s EXCEPT !.proc.stop = "done", !.proc.si = 0,
                   !.proc.orders = <<>>, !.proc.idx = 0]
    ELSE [s EXCEPT !.proc.stop = "getActiveOrders", !.proc.si = i,
                   !.proc.orders = <<>>, !.proc.idx = 0]

\* cancelAllOrders from the i-th listed order on
stopCancel(s, i) ==
    IF i > Len(s.proc.orders) THEN stopWallet(s, s.proc.si + 1)
    ELSE [Did(s, "cancelOrder") EXCEPT !.proc.stop = "cancelOrder", !.proc.idx = i]

BeginStop == [Cur EXCEPT !.hist.actor = "stop", !.hist.events = {}]

\* stop(): isRunning = false, then cancelAllOrders of the first wallet.
StopCall ==
    /\ proc.start # "idle"
    /\ proc.stop = "idle"
    /\ Install(stopWallet([BeginStop EXCEPT !.mm.isRunning = FALSE], 1), "stop")

StopGotOrders(ok) ==
    /\ proc.stop = "getActiveOrders"
    /\ MayFail(~ok)
    /\ LET s == Faulty(BeginStop, ~ok)
       IN  Install(IF ok
                   THEN stopCancel([s EXCEPT !.proc.orders =
                                        getActiveOrders(venue, TradingWallets[proc.si])], 1)
                   ELSE stopWallet(s, proc.si + 1),
                   "stopGetActiveOrders")

StopCancelDone(ok) ==
    /\ proc.stop = "cancelOrder"
    /\ ok => proc.orders[proc.idx] \in venue
    /\ MayFail(~ok)
    /\ LET s == Faulty(BeginStop, ~ok)
           s1 == IF ok THEN OffVenue(s, proc.orders[proc.idx]) ELSE s
       IN  Install(stopCancel(s1, proc.idx + 1), "stopCancelOrder")

\* The venue fills (or expires) an open order.
Fill(o) ==
    /\ o \in venue
    /\ venue' = venue \ {o}
    /\ op' = "fill"
    /\ UNCHANGED <<now, cb, resumes, lastTripAt, oracleState, detectorState, config, mm, pc, loc, proc>> /\ Outside

\* An intervention of the operator, while fewer than MaxMoves were made.
Intervention ==
    /\ hist.moves < MaxMoves
    /\ hist' = [hist EXCEPT !.actor = "none", !.events = {}, !.moves = @ + 1]

\* The operator trips the closed breaker, or resets the open one.
OperatorTrip == ~cb.isOpen /\ manualTripCall /\ Intervention
OperatorReset == reset(cb, now) # cb /\ resetCall /\ Intervention

\* resetCircuitBreaker(wallet), the per-account manual reset
ResetCircuitBreaker(w) ==
    /\ mm.safetyStates[w] # Null
    /\ mm.safetyStates[w].circuitBreaker
    /\ mm' = [mm EXCEPT !.safetyStates[w].circuitBreaker = FALSE]
    /\ op' = "resetCircuitBreaker"
    /\ UNCHANGED <<now, cb, resumes, lastTripAt, oracleState, detectorState, config, pc, loc, proc, venue>>
    /\ Intervention

\* The process ends and a new one is started: every object is constructed
\* anew (the flag as Init has it), the orders at the venue stay.
Restart ==
    /\ proc.start # "idle"
    /\ proc.restarts < MaxRestarts
    /\ cb' = NewCircuitBreaker
    /\ resumes' = <<>>
    /\ lastTripAt' = 0
    /\ pa' = NewPriceAggregator({Pair})
    /\ mm' = NewMarketMaker(TRUE)
    /\ pc' = [w \in Wallets |-> "idle"]
    /\ loc' = [w \in Wallets |-> NoLocals]
    /\ proc' = [NewProc EXCEPT !.restarts = proc.restarts + 1]
    /\ Intervention
    /\ op' = "restart"
    /\ rug' = NewRugPullDetector
    /\ UNCHANGED <<now, priceOut, riskOut, venue, config>>

\* start() as the code has it: isRunning is initialised to false and nothing
\* sets it.
InitStart ==
    /\ now = 1
    /\ cb = NewCircuitBreaker
    /\ resumes = <<>>
    /\ op = "init"
    /\ lastTripAt = 0
    /\ pa = NewPriceAggregator({Pair})
    /\ priceOut = Null
    /\ rug = NewRugPullDetector
    /\ riskOut = NoRisk
    /\ config = BotConfig
    /\ MakerIdle

NextStart ==
    \/ Tick
    \/ Start
    \/ \E w \in Wallets, b \in Balances \cup {Throws} : InitializeInventoryDone(w, b)
    \/ StartNextWallet
    \/ StopCall
    \/ \E ok \in BOOLEAN : StopGotOrders(ok)

SpecStart == InitStart /\ [][NextStart]_vars

\* The lifecycle with the running flag set, which is what the body of the
\* loop presupposes: the cycles, stop(), the breaker's manual operations, the
\* venue and restarts.
Init ==
    /\ now = 1
    /\ cb = NewCircuitBreaker
    /\ resumes = <<>>
    /\ op = "init"
    /\ lastTripAt = 0
    /\ pa = NewPriceAggregator({Pair})
    /\ priceOut = Null
    /\ rug = NewRugPullDetector
    /\ riskOut = NoRisk
    /\ config = BotConfig
    /\ mm = NewMarketMaker(TRUE)
    /\ pc = [w \in Wallets |-> "idle"]
    /\ loc = [w \in Wallets |-> NoLocals]
    /\ proc = NewProc
    /\ venue = {}
    /\ hist = NewHist

Next ==
    \/ Tick
    \/ Start
    \/ \E w \in Wallets, b \in Balances \cup {Throws} : InitializeInventoryDone(w, b)
    \/ StartNextWallet
    \/ \E w \in Wallets, risk \in RiskAnswers : CheckTokenDone(w, risk)
    \/ \E w \in Wallets, raws \in CycleFeeds : GetPriceDone(w, raws)
    \/ \E w \in Wallets, rec \in Recommendations : GetRecommendationsDone(w, rec)
    \/ \E w \in Wallets, ok \in BOOLEAN : GetActiveOrdersDone(w, ok)
    \/ \E w \in Wallets, ok \in BOOLEAN : CancelOrderDone(w, ok)
    \/ \E w \in Wallets : MarketOrderDone(w)
    \/ \E w \in Wallets, detected \in BOOLEAN : SandwichDone(w, detected)
    \/ \E w \in Wallets, outcome \in PlaceOutcomes : PlaceBidDone(w, outcome)
    \/ \E w \in Wallets, outcome \in PlaceOutcomes : PlaceAskDone(w, outcome)
    \/ \E w \in Wallets : SleepDone(w)
    \/ StopCall
    \/ \E ok \in BOOLEAN : StopGotOrders(ok)
    \/ \E ok \in BOOLEAN : StopCancelDone(ok)
    \/ \E o \in venue : Fill(o)
    \/ \E level \in Levels : MarketMove(level)
    \/ OperatorTrip
    \/ OperatorReset
    \/ \E w \in Wallets : ResetCircuitBreaker(w)
    \/ Restart

Spec == Init /\ [][Next]_vars


---------------------------------------------------------------------------
(* Claims about the lifecycle, checked under Spec and SpecStart *)

\* The adapter calls by which a cycle trades, as the events of a step.
PlacingCalls == {"placeBid", "placeAsk", "marketOrder"}
TradingCalls == PlacingCalls \cup {"cancelOrder"}

OpenOrders(w, bid) == {o \in venue : o.owner = w /\ isBidOrder(o) = bid}

Recorded(m, w) ==
    IF m.orderStates[w] = Null THEN {}
    ELSE {m.orderStates[w][slot] : slot \in {"bid", "ask"}} \ {Null}

\* The inventory of w after the recorded orders that are off the venue were
\* applied, the bid before the ask.
InventoryAfterFills(w) ==
    LET state == mm.orderStates[w]
        gone(slot) == state # Null /\ state[slot] # Null /\ state[slot] \notin venue
        i0 == IF mm.inventory[w] # Null THEN mm.inventory[w] ELSE ZeroInventory
        i1 == IF gone("bid") THEN updateInventoryOnFill(i0, "buy", state.bid) ELSE i0
    IN  IF gone("ask") THEN updateInventoryOnFill(i1, "sell", state.ask) ELSE i1

\* The step is the fill detection of a cycle of w.
FillDetection(w) == hist'.actor = w /\ "checkForFills" \in hist'.events

\* C4: an order is applied to the inventory only by the fill detection of a
\* cycle of its account, while it is recorded in the local OrderState and
\* absent from the open orders listed; the detection applies every recorded
\* order that is absent, once, and clears its slot, and leaves a recorded
\* order that is still listed unapplied and in its slot; no order is ever
\* applied twice; and nothing else but initializeInventory or a restart
\* changes the inventory.
C4_AppliedOnceWhenAbsent ==
    [][ /\ \A k \in 1..MaxOrders :
             /\ hist'.applied[k] <= 1
             /\ hist'.applied[k] # hist.applied[k]
                   => \E w \in Wallets :
                         /\ FillDetection(w)
                         /\ \E o \in Recorded(mm, w) :
                               o.orderKey = k /\ o \notin venue
        /\ \A w \in Wallets :
             /\ FillDetection(w)
                   => /\ \A o \in Recorded(mm, w) :
                            IF o \in venue
                            THEN /\ hist'.applied[o.orderKey] = hist.applied[o.orderKey]
                                 /\ o \in Recorded(mm', w)
                            ELSE /\ hist'.applied[o.orderKey] = hist.applied[o.orderKey] + 1
                                 /\ o \notin Recorded(mm', w)
                      /\ mm'.inventory[w] = InventoryAfterFills(w)
             /\ mm'.inventory[w] # mm.inventory[w]
                   => \/ FillDetection(w)
                      \/ pc[w] = "initializeInventory"
                      \/ mm'.inventory[w] = Null ]_vars

\* C4 witness: a fill detection has applied one recorded order of an account
\* and cleared its slot, while the account's other recorded order, still open
\* at the venue, stays in its slot unapplied.
C4_Witness ==
    \E w \in Wallets :
        /\ hist.actor = w /\ "checkForFills" \in hist.events
        /\ mm.orderStates[w] # Null
        /\ mm.orderStates[w].bid = Null
        /\ mm.orderStates[w].ask \in venue
        /\ hist.applied[mm.orderStates[w].ask.orderKey] = 0
        /\ \E k \in 1..MaxOrders : hist.applied[k] = 1
        /\ mm.recentFills[w] = 1

C10_LoopsRunUntilStop ==
    proc.stop = "idle"
        => \A w \in Wallets :
              /\ pc[w] # "done"
              /\ (proc.start = "running" /\ pc[w] = "idle")
                    => \A v \in Wallets : pc[v] \in {"idle", "initializeInventory"}

---------------------------------------------------------------------------
(* Claims about shutdown, checked under Spec *)

\* The events by which a step shows that it invoked runCycle.
CycleStarts == {"gatePassed", "gateSkipped"}

---------------------------------------------------------------------------
(* Claims about the inventory, checked under Spec *)

\* C13: after any sequence of cycles (placements, detected fills on either
\* side, cancellations, rebalances, stop and restart), the base and the quote
\* amount of every account's Inventory are at least 0.
C13_InventoryNonNegative ==
    \A w \in Wallets :
        mm.inventory[w] # Null
            => mm.inventory[w].base >= 0 /\ mm.inventory[w].quote >= 0

\* C13 witness: detected fills have spent the whole quote balance of an
\* account that started with some.
C13_Witness ==
    \E w \in Wallets :
        /\ mm.inventory[w] # Null
        /\ mm.recentFills[w] >= 2
        /\ mm.inventory[w].quote = 0
        /\ mm.inventory[w].base > 0

---------------------------------------------------------------------------
(* Inventory accounting on its own: orders are recorded in the slots of a    *)
(* wallet and found filled by checkForFills, from every inventory below.    *)

MaxFills == 3       \* orders recorded in one behaviour

\* The inventories an account starts the accounting with
StartInventories ==
    { [base |-> b, quote |-> 1000, avgBuyPrice |-> a] :
          b \in {0, 100, 300}, a \in {0, 2000} }

\* The amounts and the price of a PlacedOrder, as placeOrder returns it
FillAmounts == {100, 200}
FillPrices == {1000, 2000, 3000}

\* updateOrderState(walletKey, side, order) with a returned order
UpdateOrderState(w, side, amount, price) ==
    /\ hist.nextKey <= MaxFills
    /\ mm.orderStates[w][side] = Null
    /\ side = "ask" => mm.inventory[w].base >= amount
    /\ LET s == Begin(w)
           order == [orderKey |-> hist.nextKey, owner |-> w,
                     inputMint |-> IF side = "bid" THEN "quote" ELSE "base",
                     inAmount |-> IF side = "bid" THEN 10 ELSE amount,
                     outAmount |-> IF side = "bid" THEN amount ELSE 10,
                     price |-> price]
       IN  Install(updateOrderState([s EXCEPT !.hist.nextKey = @ + 1], w, side, order),
                   "updateOrderState")

\* checkForFills(wallet, activeOrders) with none of the recorded orders listed
CheckForFills(w) ==
    /\ Recorded(mm, w) # {}
    /\ Install(checkForFills(Did(Begin(w), "checkForFills"), w, <<>>), "checkForFills")

InitInventory ==
    /\ now = 1
    /\ cb = NewCircuitBreaker
    /\ resumes = <<>>
    /\ op = "init"
    /\ lastTripAt = 0
    /\ pa = NewPriceAggregator({Pair})
    /\ priceOut = Null
    /\ rug = NewRugPullDetector
    /\ riskOut = NoRisk
    /\ config = BotConfig
    /\ \E i \in StartInventories :
          mm = [NewMarketMaker(FALSE) EXCEPT
                   !.inventory["w1"] = i,
                   !.orderStates["w1"] = [bid |-> Null, ask |-> Null]]
    /\ pc = [w \in Wallets |-> "idle"]
    /\ loc = [w \in Wallets |-> NoLocals]
    /\ proc = NewProc
    /\ venue = {}
    /\ hist = NewHist

NextInventory ==
    \/ \E side \in {"bid", "ask"}, amount \in FillAmounts, price \in FillPrices :
          UpdateOrderState("w1", side, amount, price)
    \/ CheckForFills("w1")

SpecInventory == InitInventory /\ [][NextInventory]_vars

\* C14: a buy fill applied to an inventory with no prior buys (avgBuyPrice 0)
\* sets the average cost to the fill price, and any other buy fill sets it to
\* (pre-fill base * old average + fill size * fill price) / post-fill base,
\* which for two buys of equal size from an empty inventory is the mean of
\* the two prices.
C14_AvgCostBasis ==
    [][ \A w \in Wallets :
          (FillDetection(w) /\ mm.orderStates[w] # Null /\ mm.orderStates[w].bid # Null)
             => LET order == mm.orderStates[w].bid
                    pre == mm.inventory[w]
                    post == mm'.inventory[w]
                IN  post.avgBuyPrice =
                       IF pre.avgBuyPrice = 0 THEN order.price
                       ELSE (pre.base * pre.avgBuyPrice
                                + order.outAmount * order.price) \div post.base ]_vars

---------------------------------------------------------------------------
(* Claims about the price oracle, checked under SpecOracle *)

\* The valid prices among the answers of the feeds: finite and positive.
ValidSamples(raws) ==
    LET answered == SelectSeq(raws, LAMBDA r : r.kind = "num" /\ r.v > 0)
    IN  [i \in DOMAIN answered |-> answered[i].v]

\* The samples within maxPriceDeviationPercent of the median of all of them.
KeptSamples(values) ==
    LET first == calculateMedian(values)
    IN  SelectSeq(values, LAMBDA v : Abs(v - first) * 100
                                        <= maxPriceDeviationPercent * first)

\* The two-pass filtered median of the valid prices.
FilteredMedian(raws) == calculateMedian(KeptSamples(ValidSamples(raws)))

\* The step is a getPrice call that went to the feeds and got these answers.
Fetched(pair, forceRefresh, raws) ==
    /\ GetPrice(pair, forceRefresh, raws)
    /\ cachedPrice(pa, pair, forceRefresh, now) = Null

\* C15: a getPrice call whose feeds give at least minSources valid prices (and
\* whose median is not dampened) returns as midPrice the median of the
\* samples within maxPriceDeviationPercent of the first-pass median, with
\* bestBid < midPrice < bestAsk.
C15_FilteredMedian ==
    [][ \A pair \in Pairs, forceRefresh \in BOOLEAN, raws \in FeedAnswers :
          (/\ Fetched(pair, forceRefresh, raws)
           /\ Len(ValidSamples(raws)) >= minSources
           /\ ~Shock(pa.lastPrice, FilteredMedian(raws)))
             => /\ priceOut'.kind = "price"
                /\ KeptSamples(ValidSamples(raws)) # <<>>
                /\ priceOut'.midPrice = FilteredMedian(raws)
                /\ priceOut'.bestBid < priceOut'.midPrice
                /\ priceOut'.midPrice < priceOut'.bestAsk ]_vars

\* C16: every AggregatedPrice getPrice returns carries at least minSources
\* samples of the feeds, or is a fallback: confidence at most 0.5 and exactly
\* one sample, tagged "fallback".
C16_EnoughSamplesOrFallback ==
    (op = "getPrice" /\ priceOut.kind = "price")
        => \/ /\ Len(priceOut.sources) >= minSources
              /\ \A i \in DOMAIN priceOut.sources :
                    priceOut.sources[i].source # "fallback"
           \/ /\ priceOut.confidence <= 50
              /\ priceOut.confidence # NaN
              /\ Len(priceOut.sources) = 1
              /\ priceOut.sources[1].source = "fallback"

\* Some price was accepted before: it is the last price or still in the cache.
AcceptedBefore == pa.lastPrice # 0 \/ \E p \in DOMAIN pa.cache : pa.cache[p] # Null

\* C17: a getPrice call whose feeds give fewer than minSources valid prices
\* returns the fallback built from the last accepted price (bid and ask by the
\* fixed spread around it) when a price was accepted before, and fails with
\* the insufficient-sources error only when none was.
C17_FallbackOrFail ==
    [][ \A pair \in Pairs, forceRefresh \in BOOLEAN, raws \in FeedAnswers :
          (/\ Fetched(pair, forceRefresh, raws)
           /\ Len(ValidSamples(raws)) < minSources)
             => IF AcceptedBefore
                THEN /\ priceOut'.kind = "price"
                     /\ priceOut'.midPrice = pa.lastPrice
                     /\ priceOut'.bestBid = bestBidOf(pa.lastPrice)
                     /\ priceOut'.bestAsk = bestAskOf(pa.lastPrice)
                     /\ Len(priceOut'.sources) = 1
                     /\ priceOut'.sources[1].source = "fallback"
                ELSE priceOut' = InsufficientSources ]_vars

\* C18: when the filtered median deviates from the previous accepted price by
\* more than circuitBreakerThresholdPercent, getPrice returns the previous
\* price moved by 20% of the difference toward the median: in the direction
\* of the move and not beyond the median.
C18_DampenedTowardMedian ==
    [][ \A pair \in Pairs, forceRefresh \in BOOLEAN, raws \in FeedAnswers :
          (/\ Fetched(pair, forceRefresh, raws)
           /\ Len(ValidSamples(raws)) >= minSources
           /\ Shock(pa.lastPrice, FilteredMedian(raws)))
             => LET median == FilteredMedian(raws)
                    out == priceOut'.midPrice
                IN  /\ priceOut'.kind = "price"
                    /\ out = pa.lastPrice + (median - pa.lastPrice) \div 5
                    /\ median > pa.lastPrice => pa.lastPrice < out /\ out <= median
                    /\ median < pa.lastPrice => median <= out /\ out < pa.lastPrice ]_vars

---------------------------------------------------------------------------
(* Claims about the oracle and the breaker together, checked under Spec *)

TradeAttempts == {"placeBid", "placeAsk", "cancelOrder", "marketOrder"}

---------------------------------------------------------------------------
(* Further claims about the circuit breaker, checked under SpecBreaker *)

\* The first condition that matches, in the order price deviation (>),
\* volatility (>), loss (>), consecutive failures (>=); "none" when none does.
FirstMatch(b, in) ==
    IF Abs(in.cur - in.prev) * 100 > priceDeviationThresholdPercent * Abs(in.prev)
    THEN "price_deviation"
    ELSE IF in.vol > volatilityThresholdPercent * PctScale THEN "volatility"
    ELSE IF in.loss > lossThresholdPercent * PctScale THEN "loss"
    ELSE IF b.consecutiveFailures >= consecutiveFailuresThreshold THEN "failures"
    ELSE "none"

\* C21: on a closed breaker checkConditions trips with the first matching
\* condition, in the order price deviation, volatility, loss, consecutive
\* failures, as its reason and returns true; when none matches it returns
\* false and leaves the breaker unchanged.
C21_FirstMatchWins ==
    [][ \A in \in CheckInputs :
          (CheckConditions(in) /\ ~cb.isOpen)
             => LET result == checkConditions(cb, in.cur, in.prev, in.loss,
                                              in.vol, now).result
                IN  IF FirstMatch(cb, in) = "none"
                    THEN ~result /\ cb' = cb
                    ELSE /\ result
                         /\ cb'.isOpen
                         /\ cb'.triggerReason.type = FirstMatch(cb, in)
                         /\ cb'.triggeredAt = now
                         /\ cb'.consecutiveFailures = cb.consecutiveFailures ]_vars

\* C21 witness: checkConditions has just tripped the breaker for volatility
\* although the consecutive failures had reached their threshold too.
C21_Witness ==
    /\ op = "checkConditions" /\ cb.isOpen /\ cb.triggeredAt = now
    /\ cb.triggerReason.type = "volatility"
    /\ cb.consecutiveFailures >= consecutiveFailuresThreshold

---------------------------------------------------------------------------
(* The RugPullDetector with the chain answering its fetches.  Its timer     *)
(* (startMonitoring) and the account loops (MarketMaker.checkRugPull) both  *)
(* call checkToken; the period of the timer is not followed, a check is     *)
(* one step.  In Spec the detector's answer is one of RiskAnswers and its   *)
(* histories are not followed.                                              *)

Supplies == {75, 99, 100}           \* getTokenSupply(tokenMint).value.amount
Accounts(a) == [kind |-> "accounts", amounts |-> a]
LargestAnswers == {Throws, Accounts(<<>>), Accounts(<<20, 10>>), Accounts(<<60, 10>>)}

\* The answers of the chain to one checkToken call: one supply at the time
\* of the call, with every fetch answering or one of them failing.
TokenAnswers ==
    UNION { { [lp |-> Num(v), supply |-> Num(v), largest |-> l, total |-> Num(v)] :
                l \in LargestAnswers }
            \cup { [lp |-> Throws, supply |-> Num(v),
                    largest |-> Accounts(<<60, 10>>), total |-> Num(v)],
                   [lp |-> Num(v), supply |-> Throws,
                    largest |-> Accounts(<<60, 10>>), total |-> Num(v)] } :
            v \in Supplies }

AllAnswered(in) ==
    /\ in.lp.kind = "num"
    /\ in.supply.kind = "num"
    /\ in.largest.kind = "accounts"
    /\ in.total.kind = "num"

\* riskOut after a checkToken call of the caller returned r.risk.  exited: an
\* assessment with shouldExit was returned and the chain has answered the
\* same to every call since; since: the wallets whose loops called from that
\* assessment on.
Reported(in, r, caller) ==
    LET unchanged == riskOut.exited /\ in = riskOut.in
    IN  [risk |-> r.risk, caller |-> caller, in |-> in,
         before |-> riskOut.last,
         last |-> [lp |-> IF in.lp.kind = "num" THEN in.lp.v ELSE riskOut.last.lp,
                   supply |-> IF in.supply.kind = "num" THEN in.supply.v
                              ELSE riskOut.last.supply],
         failed |-> riskOut.failed \/ ~AllAnswered(in),
         exited |-> r.risk.shouldExit \/ unchanged,
         since |-> IF r.risk.shouldExit THEN {caller} \cap Wallets
                   ELSE IF unchanged THEN riskOut.since \cup ({caller} \cap Wallets)
                   ELSE {}]

rugFrame == <<now, cb, resumes, op, lastTripAt, oracleState, pc, loc, proc, venue,
              config, hist>>

\* startMonitoring(baseMint): the initial check and the interval timer
StartMonitoring(in) ==
    /\ ~rug.monitoring
    /\ LET r == checkToken(rug, in)
       IN  /\ rug' = [r.rug EXCEPT !.monitoring = TRUE]
           /\ riskOut' = Reported(in, r, "monitor")
    /\ UNCHANGED <<rugFrame, mm>>

\* The callback of the interval timer: checkToken(tokenMint)
MonitorCheck(in) ==
    /\ rug.monitoring
    /\ LET r == checkToken(rug, in)
       IN  /\ rug' = r.rug
           /\ riskOut' = Reported(in, r, "monitor")
    /\ UNCHANGED <<rugFrame, mm>>

\* stopAllMonitoring(): the timers are cleared, the histories stay
StopAllMonitoring ==
    /\ rug.monitoring
    /\ rug' = [rug EXCEPT !.monitoring = FALSE]
    /\ UNCHANGED <<rugFrame, mm, riskOut>>

\* MarketMaker.checkRugPull(wallet) at the head of a loop iteration
LoopCheckToken(w, in) ==
    /\ mm.safetyStates[w] # Null
    /\ LET r == checkToken(rug, in)
           flag == r.risk.shouldExit \/ drasticChange(mm.volatilityWindow)
       IN  /\ rug' = r.rug
           /\ riskOut' = Reported(in, r, w)
           /\ mm' = IF flag
                    THEN [mm EXCEPT !.safetyStates[w].rugPullDetected = TRUE]
                    ELSE mm
    /\ UNCHANGED rugFrame

InitRug ==
    /\ now = 1
    /\ cb = NewCircuitBreaker
    /\ resumes = <<>>
    /\ op = "init"
    /\ lastTripAt = 0
    /\ pa = NewPriceAggregator({Pair})
    /\ priceOut = Null
    /\ rug = NewRugPullDetector
    /\ riskOut = NoRisk
    /\ config = BotConfig
    /\ mm = [NewMarketMaker(TRUE) EXCEPT
                !.safetyStates = [w \in Wallets |-> NewSafetyState]]
    /\ pc = [w \in Wallets |-> "idle"]
    /\ loc = [w \in Wallets |-> NoLocals]
    /\ proc = NewProc
    /\ venue = {}
    /\ hist = NewHist

NextRug ==
    \/ \E in \in TokenAnswers : StartMonitoring(in)
    \/ \E in \in TokenAnswers : MonitorCheck(in)
    \/ StopAllMonitoring
    \/ \E w \in Wallets, in \in TokenAnswers : LoopCheckToken(w, in)

SpecRug == InitRug /\ [][NextRug]_vars

\* The sub-scores as stated, in halves: proportional to the change from the
\* previous snapshot, whatever its size
StatedLpScore(previous, current) ==
    LET c == changePercentOf(current, previous)
    IN  IF c < 0 THEN Min(Abs(c) * 2 * ScoreScale, 40 * ScoreScale) ELSE 0
StatedSupplyScore(previous, current) ==
    Min((Abs(changePercentOf(current, previous)) * 3 * ScoreScale) \div 2, 30 * ScoreScale)
StatedHolderScore(in) ==
    IF in.largest.amounts = <<>> THEN 0
    ELSE Min((TruncDiv(in.largest.amounts[1] * 100, in.total.v) * ScoreScale) \div 2,
             30 * ScoreScale)

\* C22: after every check whose three fetches answered and that had a
\* previous snapshot of the LP and of the supply, the risk score is the sum
\* of the three sub-scores min(2 x |% decrease|, 40), min(1.5 x |% change|, 30)
\* and min(0.5 x top-holder %, 30), whatever the size of the change.
C22_ScoreIsSumOfSubScores ==
    ( /\ riskOut.risk.kind = "risk"
      /\ AllAnswered(riskOut.in)
      /\ riskOut.before.lp # 0 /\ riskOut.before.supply # 0 )
    => riskOut.risk.score =
           StatedLpScore(riskOut.before.lp, riskOut.in.lp.v)
         + StatedSupplyScore(riskOut.before.supply, riskOut.in.supply.v)
         + StatedHolderScore(riskOut.in)

\* The sub-scores calculateRisk gives a change from the supply last fetched
NormalLpScore(previous, current) ==
    LET c == changePercentOf(current, previous)
    IN  IF previous # 0 /\ lpSuspicious(c)
        THEN Min(Abs(c) * 2 * ScoreScale, 40 * ScoreScale) ELSE 0
NormalSupplyScore(previous, current) ==
    LET c == changePercentOf(current, previous)
    IN  IF previous # 0 /\ supplySuspicious(c)
        THEN Min((Abs(c) * 3 * ScoreScale) \div 2, 30 * ScoreScale) ELSE 0
NormalHolderScore(in) ==
    LET h == checkHolderConcentration(in.largest, in.total)
    IN  IF h.suspicious
        THEN Min((h.topHolderPercent * ScoreScale) \div 2, 30 * ScoreScale) ELSE 0

\* C23: a check in which a fetch failed, and every check after one, returned
\* an assessment (checkToken did not throw) whose score is the sum of the
\* normal sub-scores of the sub-checks whose fetch answered, the change being
\* taken from the supply last fetched; a failed sub-check contributes 0.
C23_FailedCheckContributesZero ==
    (riskOut.caller # "none" /\ riskOut.failed)
    => /\ riskOut.risk.kind = "risk"
       /\ riskOut.risk.score =
            (IF riskOut.in.lp.kind = "num"
             THEN NormalLpScore(riskOut.before.lp, riskOut.in.lp.v) ELSE 0)
          + (IF riskOut.in.supply.kind = "num"
             THEN NormalSupplyScore(riskOut.before.supply, riskOut.in.supply.v) ELSE 0)
          + (IF riskOut.in.largest.kind = "accounts"
             THEN NormalHolderScore(riskOut.in) ELSE 0)

\* A check whose LP fetch failed while the supply and the holders scored
C23_Witness ==
    /\ riskOut.in.lp.kind = "throw"
    /\ riskOut.risk.kind = "risk"
    /\ riskOut.risk.score = 60 * ScoreScale

---------------------------------------------------------------------------
(* Stale orders *)

\* The limit price of an order in quote per base: what is paid over what is
\* bought for a bid, what is received over what is sold for an ask
limitPrice(order) ==
    IF isBidOrder(order)
    THEN calculatePrice(order.inAmount, order.outAmount, quoteDecimals, baseDecimals)
    ELSE calculatePrice(order.outAmount, order.inAmount, quoteDecimals, baseDecimals)

\* The limit price is further from the target of the order's side than the
\* tolerance (currentSlippage)
Deviates(order, targetBid, targetAsk) ==
    LET targetPrice == IF isBidOrder(order) THEN targetBid ELSE targetAsk
    IN  Abs(limitPrice(order) - targetPrice) * 10000 > currentSlippageBps * targetPrice

---------------------------------------------------------------------------
(* Rate limit *)

Submissions == {"placeBid", "placeAsk", "marketOrder"}

\* The last step was one of w's loop and submitted an order
Submitted(h, w) == h.actor = w /\ h.events \cap Submissions # {}

---------------------------------------------------------------------------
(* Invariant violations *)

---------------------------------------------------------------------------
(* The sleeps of the loop under every configured refresh interval.  A cycle *)
(* is one step here: it returns or it throws.  The unit of time is a third  *)
(* of the sleep after a failed cycle.                                       *)

\* ORDER_REFRESH_TIME_SECONDS * 1000: 3.3 s (as in Spec), 5 s, 10 s, 15 s (the
\* default)
RefreshIntervals == {orderRefreshInterval, 3, 6, 9}

\* runCycle returned: sleep(config.orderRefreshInterval)
CycleReturns(w) ==
    /\ pc[w] = "runCycle"
    /\ Install(sleep(Did(Begin(w), "cycleDone"), w, config.orderRefreshInterval), "runCycle")

\* runCycle or checkRugPull threw: the catch of the loop
CycleThrows(w) ==
    /\ pc[w] = "runCycle"
    /\ Install(failCycle(Begin(w), w), "runCycle")

\* The sleep is over: await loop(), up to runCycle
LoopWakes(w) ==
    /\ pc[w] = "sleep"
    /\ now >= loc[w].wake
    /\ Install([Begin(w) EXCEPT !.pc[w] = IF mm.isRunning THEN "runCycle" ELSE "done",
                                !.loc[w] = NoLocals], "loop")

\* Time passes while the loops sleep
LoopTick ==
    /\ now < MaxTime
    /\ \A w \in Wallets : pc[w] = "sleep" /\ now < loc[w].wake
    /\ now' = now + 1
    /\ op' = "tick"
    /\ UNCHANGED <<cb, resumes, lastTripAt, oracleState, makerState, detectorState>>
    /\ Outside

InitLoop ==
    /\ now = 1
    /\ cb = NewCircuitBreaker
    /\ resumes = <<>>
    /\ op = "init"
    /\ lastTripAt = 0
    /\ pa = NewPriceAggregator({Pair})
    /\ priceOut = Null
    /\ rug = NewRugPullDetector
    /\ riskOut = NoRisk
    /\ config \in [orderRefreshInterval : RefreshIntervals, enableStrategies : {TRUE}]
    /\ mm = NewMarketMaker(TRUE)
    /\ pc = [w \in Wallets |-> "runCycle"]
    /\ loc = [w \in Wallets |-> NoLocals]
    /\ proc = NewProc
    /\ venue = {}
    /\ hist = NewHist

NextLoop ==
    \/ \E w \in Wallets : CycleReturns(w)
    \/ \E w \in Wallets : CycleThrows(w)
    \/ \E w \in Wallets : LoopWakes(w)
    \/ LoopTick

SpecLoop == InitLoop /\ [][NextLoop]_vars

---------------------------------------------------------------------------
(* Quoting: calculateTargetPrices with the strategy modules computing their *)
(* recommendation (SpreadController, VolatilityFilter) or disabled.  A      *)
(* spread is an integer number of millionths of the mid price.              *)

SpreadScale == 1000000

\* createDefaultStrategyConfig
minSpread == 5000                       \* 0.005
maxSpread == 50000                      \* 0.05
baseSpread == 10000                     \* 0.01
volatilityMultiplierTenths == 15        \* 1.5
inventoryMultiplierTenths == 10         \* 1.0
minProfitBps == 5
pauseThresholdPercent == 100
reduceThresholdPercent == 50
resumeThresholdPercent == 40
tradingFees == 3000                     \* 0.003

\* VolatilityFilter.getAction at a current volatility of volPercent percent:
\* the pause, or the spread multiplier in percent
getAction(volPercent) ==
    IF volPercent > pauseThresholdPercent
    THEN [shouldPause |-> TRUE, spreadMultiplier |-> 200]
    ELSE IF volPercent > reduceThresholdPercent
    THEN [shouldPause |-> FALSE, spreadMultiplier |-> 100 + volPercent \div 2]
    ELSE [shouldPause |-> FALSE, spreadMultiplier |-> 100]

\* The isPaused flag of the VolatilityFilter after getAction at a current
\* volatility of volPercent percent
isPausedAfter(isPaused, volPercent) ==
    IF volPercent > pauseThresholdPercent THEN TRUE
    ELSE IF isPaused /\ volPercent < resumeThresholdPercent THEN FALSE
    ELSE isPaused

calculateVolatilityAdjustment(volPercent) ==
    Min((volPercent * volatilityMultiplierTenths * baseSpread) \div 1000,
        maxSpread - baseSpread)

\* deviation * inventoryMultiplier * baseSpread, the ratio being num / den
\* and the deviation from 0.5 taken in percent
calculateInventoryAdjustment(inventoryRatio) ==
    LET deviation == (Abs(2 * inventoryRatio.num - inventoryRatio.den) * 100)
                        \div (2 * inventoryRatio.den)
    IN  (deviation * inventoryMultiplierTenths * baseSpread) \div 1000

ensureMinimumProfit ==
    LET minSpreadForProfit == tradingFees + minProfitBps * (SpreadScale \div 10000)
    IN  IF baseSpread < minSpreadForProfit THEN minSpreadForProfit - baseSpread ELSE 0

calculateAsymmetricSpread(totalSpread, inventoryAdjustment, inventoryRatio) ==
    IF 2 * inventoryRatio.num > inventoryRatio.den
    THEN [bidSpread |-> totalSpread \div 2 - inventoryAdjustment \div 2,
          askSpread |-> totalSpread \div 2 + inventoryAdjustment \div 2]
    ELSE IF 2 * inventoryRatio.num < inventoryRatio.den
    THEN [bidSpread |-> totalSpread \div 2 + inventoryAdjustment \div 2,
          askSpread |-> totalSpread \div 2 - inventoryAdjustment \div 2]
    ELSE [bidSpread |-> totalSpread \div 2, askSpread |-> totalSpread \div 2]

calculateOptimalSpread(volPercent, inventoryRatio) ==
    LET spread == baseSpread + calculateVolatilityAdjustment(volPercent)
        inventoryAdjustment == calculateInventoryAdjustment(inventoryRatio)
        totalSpread == Max(minSpread, Min(spread + ensureMinimumProfit, maxSpread))
    IN  calculateAsymmetricSpread(totalSpread, inventoryAdjustment, inventoryRatio)

\* StrategyIntegration.getRecommendations, as calculateTargetPrices reads it
\* (Spread takes basis points)
getRecommendations(volPercent, inventoryRatio) ==
    LET volatilityAction == getAction(volPercent)
        spreadCalc == calculateOptimalSpread(volPercent, inventoryRatio)
    IN  IF volatilityAction.shouldPause THEN Pause
        ELSE Spread((spreadCalc.bidSpread * volatilityAction.spreadMultiplier) \div 10000,
                    (spreadCalc.askSpread * volatilityAction.spreadMultiplier) \div 10000)

\* Inventories worth 20 quote tokens at a price of 100: all quote, 20% base,
\* balanced, 80% base
QuoteInventories ==
    { [base |-> b, quote |-> 200 - 10 * b, avgBuyPrice |-> 0] : b \in {0, 4, 10, 16} }
QuotePrices == {100 * PriceScale, 50 * PriceScale}
VolLevels == {0, 40, 80, 100, 120}      \* VolatilityFilter: currentVolatility * 100

\* calculateTargetPrices(price, inventory, wallet) as one step
Quote(w, midPrice, volPercent) ==
    LET inventoryRatio == calculateInventoryRatio(getInventory(Cur, w), midPrice)
        rec == IF config.enableStrategies
               THEN getRecommendations(volPercent, inventoryRatio)
               ELSE Null
        t == calculateTargetPrices(Cur, w, midPrice, rec)
    IN  Install([Begin(w) EXCEPT !.loc[w] = [NoLocals EXCEPT !.price = midPrice,
                                                             !.bidPrice = t.bidPrice,
                                                             !.askPrice = t.askPrice],
                                 !.mm.strategies.isPaused =
                                     IF config.enableStrategies
                                     THEN isPausedAfter(@, volPercent) ELSE @,
                                 !.hist.quotedVol = volPercent],
                "calculateTargetPrices")

InitQuote ==
    /\ now = 1
    /\ cb = NewCircuitBreaker
    /\ resumes = <<>>
    /\ op = "init"
    /\ lastTripAt = 0
    /\ pa = NewPriceAggregator({Pair})
    /\ priceOut = Null
    /\ rug = NewRugPullDetector
    /\ riskOut = NoRisk
    /\ config \in [orderRefreshInterval : {orderRefreshInterval}, enableStrategies : BOOLEAN]
    /\ \E inv \in [Wallets -> QuoteInventories] :
          mm = [NewMarketMaker(TRUE) EXCEPT !.inventory = inv]
    /\ pc = [w \in Wallets |-> "idle"]
    /\ loc = [w \in Wallets |-> NoLocals]
    /\ proc = NewProc
    /\ venue = {}
    /\ hist = NewHist

NextQuote ==
    \E w \in Wallets, midPrice \in QuotePrices, volPercent \in VolLevels :
        Quote(w, midPrice, volPercent)

SpecQuote == InitQuote /\ [][NextQuote]_vars

Balanced(w, midPrice) ==
    LET r == calculateInventoryRatio(getInventory(Cur, w), midPrice)
    IN  2 * r.num = r.den
BaseHeavy(w, midPrice) ==
    LET r == calculateInventoryRatio(getInventory(Cur, w), midPrice)
    IN  10 * r.num = 8 * r.den

\* C29: at a mid price of 100, with the base spread of 1% and no volatility,
\* a balanced inventory is quoted bid 99.5 / ask 100.5, and an inventory with
\* 80% of its value in base is quoted with the ask further from the mid, the
\* bid closer to it and ask - bid unchanged, with the strategy modules
\* enabled or not.
C29_SkewKeepsWidth ==
    [][ \A w \in Wallets :
          Quote(w, 100 * PriceScale, 0)
          => /\ Balanced(w, 100 * PriceScale)
                  => /\ loc'[w].bidPrice = 99500
                     /\ loc'[w].askPrice = 100500
             /\ BaseHeavy(w, 100 * PriceScale)
                  => /\ loc'[w].askPrice > 100500
                     /\ loc'[w].bidPrice > 99500
                     /\ loc'[w].askPrice - loc'[w].bidPrice = 1000 ]_vars

\* C30: the total spread of every quote, (askPrice - bidPrice) / midPrice,
\* is at least minSpread and at most maxSpread.
C30_SpreadWithinBounds ==
    \A w \in Wallets :
        loc[w].price > 0
        => LET width == (loc[w].askPrice - loc[w].bidPrice) * (SpreadScale \div 100)
           IN  /\ width >= (minSpread \div 100) * loc[w].price
               /\ width <= (maxSpread \div 100) * loc[w].price

\* C31: of two successive quotes of one wallet at the same mid price, the
\* inventory and the configuration being those of the run, the one computed
\* at the higher volatility has a total spread (askPrice - bidPrice) at least
\* as large as the other's.
C31_SpreadGrowsWithVolatility ==
    [][ \A w \in Wallets :
          ( /\ op = "calculateTargetPrices" /\ hist.actor = w
            /\ op' = "calculateTargetPrices" /\ hist'.actor = w
            /\ loc'[w].price = loc[w].price
            /\ hist.quotedVol <= hist'.quotedVol )
          => loc'[w].askPrice - loc'[w].bidPrice
                >= loc[w].askPrice - loc[w].bidPrice ]_vars

---------------------------------------------------------------------------
(* Who samples a change *)

---------------------------------------------------------------------------
(* A price the feeds settle on: every source reports hist.feeds, which moves *)
(* from time to time, and getPrice is called again and again.               *)

SettledPrices == {1000, 2000, 2200, 4000}

\* The market moves: every source reports p from now on
FeedsMove(p) ==
    /\ now < MaxTime
    /\ hist.feeds # p
    /\ hist' = [hist EXCEPT !.feeds = p, !.actor = "none", !.events = {}]
    /\ op' = "feedsMove"
    /\ UNCHANGED <<now, cb, resumes, lastTripAt, oracleState, makerState, detectorState>>

\* getPrice(baseMint, quoteMint, forceRefresh) while every source reports
\* hist.feeds
GetSettledPrice(forceRefresh) ==
    GetPrice(Pair, forceRefresh, [i \in 1..4 |-> Num(hist.feeds)])

InitFeeds ==
    /\ now = 1
    /\ cb = NewCircuitBreaker
    /\ resumes = <<>>
    /\ op = "init"
    /\ lastTripAt = 0
    /\ pa = NewPriceAggregator({Pair})
    /\ priceOut = Null
    /\ rug = NewRugPullDetector
    /\ riskOut = NoRisk
    /\ config = BotConfig
    /\ mm = NewMarketMaker(FALSE)
    /\ pc = [w \in Wallets |-> "idle"]
    /\ loc = [w \in Wallets |-> NoLocals]
    /\ proc = NewProc
    /\ venue = {}
    /\ \E p \in SettledPrices : hist = [NewHist EXCEPT !.feeds = p]

NextFeeds ==
    \/ Tick
    \/ \E p \in SettledPrices : FeedsMove(p)
    \/ \E forceRefresh \in BOOLEAN : GetSettledPrice(forceRefresh)

\* Time passes and getPrice keeps being called: a step that changes anything
\* is eventually taken.  (Once the clock has stopped the only steps left are
\* getPrice calls, and a call that changes nothing returns what the call
\* before it returned.)
SpecFeeds == InitFeeds /\ [][NextFeeds]_vars /\ WF_vars(NextFeeds)

\* The sources have settled: they move no more
Settled == now = MaxTime

\* C33: once every source has settled on a price further from the last
\* accepted price than circuitBreakerThresholdPercent, a later getPrice call
\* returns that price as midPrice.
C33_SettledPriceReturned ==
    (Settled /\ Shock(pa.lastPrice, hist.feeds))
    ~> (op = "getPrice" /\ priceOut.kind = "price" /\ priceOut.midPrice = hist.feeds)

---------------------------------------------------------------------------
(* Orders the bot cancelled: the lifecycle of Spec, with the keys of the    *)
(* orders that cancelOrder took off the venue followed in hist.cancelled.   *)

InitCancels ==
    /\ now = 1
    /\ cb = NewCircuitBreaker
    /\ resumes = <<>>
    /\ op = "init"
    /\ lastTripAt = 0
    /\ pa = NewPriceAggregator({Pair})
    /\ priceOut = Null
    /\ rug = NewRugPullDetector
    /\ riskOut = NoRisk
    /\ config = BotConfig
    /\ mm = NewMarketMaker(TRUE)
    /\ pc = [w \in Wallets |-> "idle"]
    /\ loc = [w \in Wallets |-> NoLocals]
    /\ proc = NewProc
    /\ venue = {}
    /\ hist = [NewHist EXCEPT !.followCancels = TRUE]

SpecCancels == InitCancels /\ [][Next]_vars

---------------------------------------------------------------------------
(* Rebalancing *)

\* |inventoryRatio - targetRatio| of an inventory at the price mid, in whole
\* percent
RatioGap(inventory, mid) ==
    LET r == calculateInventoryRatio(inventory, mid)
    IN  Abs(100 * r.num - targetInventoryRatioPercent * r.den) \div r.den

\* The inventory ratio of inventory b at the price mid is closer to the
\* target than that of inventory a
CloserToTarget(a, b, mid) == RatioGap(b, mid) < RatioGap(a, mid)

---------------------------------------------------------------------------
(* A pause recommended by the strategy modules *)

\* The recommendation of w's cycle was to pause: calculateTargetPrices
\* returned the mid price for both sides, which no spread does.
PauseRecommended(w) ==
    /\ loc[w].price > 0
    /\ loc[w].bidPrice = loc[w].price
    /\ loc[w].askPrice = loc[w].price

---------------------------------------------------------------------------
(* The end of a resume sequence *)

\* C37: every gradualResume sequence that was started has resolved with its
\* interval timer cleared, or can still resolve (its timer is active or one
\* of its callbacks is pending), whatever reset() calls and further
\* gradualResume calls came in between.  (Only a callback of the sequence's
\* own timer resolves its promise.)
C37_SequenceResolvesTimerCleared ==
    \A id \in DOMAIN resumes :
        IF resumes[id].resolved
        THEN ~resumes[id].active
        ELSE resumes[id].active \/ resumes[id].inflight > 0

---------------------------------------------------------------------------
(* One pair's prices and another pair's results *)

\* C38: a getPrice call for one pair leaves what getPrice returns for every
\* other pair as it was: whatever the feeds then answer for the other pair,
\* its fallback price and the reference of its dampening are the same before
\* and after the call.
C38_PairsDoNotInterfere ==
    [][ op' = "getPrice"
        => \A other \in Pairs \ {hist'.askedPair}, raws \in FeedAnswers :
              getPrice(pa', other, FALSE, raws, now).result
                 = getPrice(pa, other, FALSE, raws, now).result ]_vars

---------------------------------------------------------------------------
(* The pause of the volatility filter *)

\* C39: while the volatility filter is paused (a getAction call saw the
\* volatility above pauseThresholdPercent), a getAction call at a volatility
\* of resumeThresholdPercent or more returns shouldPause = true.
C39_PausedUntilResume ==
    [][ ( /\ config.enableStrategies
          /\ mm.strategies.isPaused
          /\ op' = "calculateTargetPrices"
          /\ hist'.quotedVol >= resumeThresholdPercent )
        => getAction(hist'.quotedVol).shouldPause ]_vars

====
